---- MODULE Spec2Model ----
(***************************************************************************)
(* Verification model of voice-to-notes.                                   *)
(*                                                                         *)
(*   SpecPool     app/api_keys.py APIKeyManager driven by the retry loop   *)
(*                of app/processor.py, one manager per background task,    *)
(*                every manager call atomic                                *)
(*   SpecRace     the same key table, get_model taken statement by         *)
(*                statement by two sessions                                *)
(*   SpecSeq      one APIKeyManager and two keys under a caller that       *)
(*                repeats get_model and mark_key_used                      *)
(*   SpecClient   engine/ai.py GeminiClient driven by engine/core.py and   *)
(*                the retry loop of GeminiClient.transcribe                *)
(*   SpecWatcher  engine/registry.py and the scan loop of engine/watcher.py*)
(*                with the operator routes of app/main.py, app/v2_routes.py*)
(*   SpecFolder   the watcher on a folder whose files come, grow and go    *)
(*   SpecRetry    the watcher over the hours of the registry's backoff     *)
(*                table, idle stretches of scans taken in one step         *)
(*   SpecPipeline the watcher with the GeminiClient inside its pipeline    *)
(*   SpecStore    the watcher on a registry whose statements can fail      *)
(*   SpecStop     the watcher and the signal handler of run_watcher.py     *)
(*   SpecSkip     engine/registry.py should_skip applied to one entry      *)
(*   SpecAcquire  APIKeyManager.get_model applied to one table of two keys *)
(*   SpecUsage    release_key_lock and mark_key_used applied to one key    *)
(*   SpecClassify the error classification of GeminiClient applied to one  *)
(*                error message                                            *)
(*   SpecRegistry engine/registry.py record_failure, record_success,       *)
(*                skip_file and unskip_file applied to one registry        *)
(*   SpecAttempt  one attempt of engine/watcher.py _process_file, write by *)
(*                write                                                    *)
(*   SpecRestart  the watcher process killed and started again by          *)
(*                run_watcher.py                                           *)
(*   SpecCrash    the watcher killed in the middle of an attempt and       *)
(*                started again, under fair scheduling                     *)
(*   SpecAbort    app/processor.py AudioProcessor.process on one recording *)
(*                and the abort route of app/main.py                       *)
(*                                                                         *)
(* Time is a clock in seconds.  The external AI call and the pipeline      *)
(* steps around it are collaborators whose outcome is a free choice.       *)
(***************************************************************************)
EXTENDS Integers, Sequences, FiniteSets, TLC

\* ------------------------------------------------------------------ bounds
MaxTime == 60
TickSeconds == 15
MaxLoops == 2
MaxCalls == 3
MaxFiles == 2
MaxSeqCalls == 12
MaxSeqTime == 75
MaxWatchTime == 30
MaxOps == 2
IdleRounds == 4
MaxRetryTime == 5000
MaxPipelineTime == 90
MaxRetryCount == 6

\* NULL of a nullable column / an unset Optional; outside the clock's range
NULL == 0 - 1

KeyIds == {1, 2}
Managers == {"m1", "m2"}
NoKey == 0

Max2(a, b) == IF a >= b THEN a ELSE b
Min2(a, b) == IF a <= b THEN a ELSE b

RECURSIVE Pow2(_)
Pow2(n) == IF n = 0 THEN 1 ELSE 2 * Pow2(n - 1)

\* ------------------------------------------------------- program constants
MAX_REQUESTS_PER_MINUTE == 5
KEY_LOCK_SECONDS == 15
WindowSeconds == 60
MAX_RETRIES_LOOP == 5

VARIABLES
    now,        \* datetime.utcnow() / time.time(), seconds
    \* ---- app database, table api_keys, and the APIKeyManager objects
    keys,       \* KeyIds -> row of api_keys
    curKey,     \* manager -> APIKeyManager._current_key (NoKey = None)
    pc,         \* manager -> position in _transcribe_with_retry
    attempt,    \* manager -> loop variable attempt
    loopKey,    \* manager -> local current_key of the loop (NoKey = unbound)
    wake,       \* manager -> end of the current time.sleep
    selKey,     \* manager -> local api_key inside get_model (SpecRace)
    lockOwner,  \* key -> the manager whose acquire_key_lock wrote locked_until
    loops,      \* number of retry loops entered so far
    \* ---- engine: the GeminiClient of the running process_audio call
    client,     \* _exhausted, _key_cooldowns, _key_429_counts, _key_index
    cpc,        \* position in GeminiClient.transcribe / structure
    cop,        \* which of the two the pipeline is in
    cattempt,   \* loop variable attempt
    ckey,       \* local key_idx (NULL = unbound)
    cwake,      \* end of the current time.sleep
    files,      \* number of process_audio calls so far
    streak,     \* history: per key, the non-daily rate-limit errors handled
                \* by this client since the key's last successful call
    log,        \* history: <<event, seconds slept>> of the attempts and the
                \* cooldown waits of the current transcribe / structure call
    cresult,    \* how the last process_audio call ended ("none" before it)
    \* ---- engine: watched folder, registry database and FolderWatcher
    folder,     \* path -> content of the file there (NoFile = none)
    file_sizes, \* FolderWatcher._file_sizes, path -> size (NULL = absent)
    file_stable_since, \* FolderWatcher._file_stable_since
    rows,       \* table processed_files, a set of rows
    nextId,     \* the AUTOINCREMENT sequence of processed_files
    queue,      \* local files_to_process of _scan, from the current file on
    wpc,        \* position of the watcher in run / _scan / _process_file
    running,    \* FolderWatcher.running
    status,     \* the row of watcher_status
    ops,        \* number of operator requests so far
    \* ---- a function of the program applied on its own
    call,       \* the function and its arguments (a record)
    result,     \* what it returned ("pending" before it has)
    writes,     \* the persistent writes of the attempt under way, in order
    recording   \* the row of the web app's recording that process() works on

poolVars == <<keys, curKey, pc, attempt, loopKey, wake, selKey, lockOwner, loops>>
clientVars == <<client, cpc, cop, cattempt, ckey, cwake, files, streak, log, cresult>>
watchVars == <<folder, file_sizes, file_stable_since, rows, nextId, queue, wpc,
               running, status, ops>>
fnVars == <<call, result, writes, recording>>
vars == <<now, poolVars, clientVars, watchVars, fnVars>>

\* ------------------------------------------------- the engine's initial state
\* indexes into GeminiClient._keys
ClientKeys == {0, 1}

\* GeminiClient.__init__; an absent dict entry is NULL (cooldown) or 0 (count)
GeminiClient ==
    [exhausted |-> {},
     key_cooldowns |-> [k \in ClientKeys |-> NULL],
     key_429_counts |-> [k \in ClientKeys |-> 0],
     key_index |-> 0]

\* no process_audio call has been made
ClientIdle ==
    /\ client = GeminiClient
    /\ cpc = "idle"
    /\ cop = "none"
    /\ cattempt = 0
    /\ ckey = NULL
    /\ cwake = 0
    /\ files = 0
    /\ streak = [k \in ClientKeys |-> 0]
    /\ log = <<>>
    /\ cresult = "none"

\* the paths of the watched folder in the order rglob yields them, and the
\* contents a file can have (its content hash stands for its bytes)
PathOrder == <<"a", "b">>
Paths == {PathOrder[n] : n \in 1..Len(PathOrder)}
Hashes == {"h1", "h2"}
NoFile == "none"

\* no function is being applied on its own
\* no recording has been uploaded
NoRecording ==
    [status |-> "none", error_message |-> "", processing_step |-> "",
     processing_message |-> ""]

NoCall ==
    /\ call = [fn |-> "none"]
    /\ result = "pending"
    /\ writes = <<>>
    /\ recording = NoRecording

\* FolderWatcher.__init__ and ProcessingRegistry._init_db on an empty folder
WatcherIdle ==
    /\ folder = [p \in Paths |-> NoFile]
    /\ file_sizes = [p \in Paths |-> NULL]
    /\ file_stable_since = [p \in Paths |-> NULL]
    /\ rows = {}
    /\ nextId = 1
    /\ queue = <<>>
    /\ wpc = "init"
    /\ running = FALSE
    /\ status = [state |-> "starting", files_in_queue |-> 0]
    /\ ops = 0


\* ================================================================== pool
FreshKey == [is_active |-> TRUE, is_exhausted |-> FALSE, locked_until |-> NULL,
             minute_window_start |-> NULL, requests_this_minute |-> 0,
             total_requests |-> 0, failed_requests |-> 0]

\* a window that never expires
get_remaining_capacity_no_expiry(k, t) ==
    IF k.minute_window_start = NULL THEN MAX_REQUESTS_PER_MINUTE
    ELSE Max2(0, MAX_REQUESTS_PER_MINUTE - k.requests_this_minute)

\* _get_remaining_capacity: the value it returns
get_remaining_capacity(k, t) ==
    IF k.minute_window_start = NULL THEN MAX_REQUESTS_PER_MINUTE
    ELSE IF t - k.minute_window_start >= WindowSeconds THEN MAX_REQUESTS_PER_MINUTE
    ELSE Max2(0, MAX_REQUESTS_PER_MINUTE - k.requests_this_minute)

\* _get_remaining_capacity: the row it leaves (an expired window is reset)
capacity_reset(k, t) ==
    IF k.minute_window_start # NULL /\ t - k.minute_window_start >= WindowSeconds
    THEN [k EXCEPT !.requests_this_minute = 0, !.minute_window_start = NULL]
    ELSE k

\* the filter of get_next_available_key
available_keys(ks, t) ==
    {i \in DOMAIN ks : /\ ks[i].is_active
                    /\ ~ks[i].is_exhausted
                    /\ (ks[i].locked_until = NULL \/ ks[i].locked_until < t)}

key_capacities(ks, t) ==
    {i \in available_keys(ks, t) : get_remaining_capacity(ks[i], t) > 0}

\* get_next_available_key: the key it returns (NoKey = None); the stable
\* descending sort leaves the first-inserted of the fullest keys in front
get_next_available_key(ks, t) ==
    IF key_capacities(ks, t) = {} THEN NoKey
    ELSE CHOOSE i \in key_capacities(ks, t) :
            \A j \in key_capacities(ks, t) :
                \/ get_remaining_capacity(ks[i], t) > get_remaining_capacity(ks[j], t)
                \/ /\ get_remaining_capacity(ks[i], t) = get_remaining_capacity(ks[j], t)
                   /\ i <= j

\* get_next_available_key: the table it leaves
select_effect(ks, t) ==
    [i \in DOMAIN ks |-> IF i \in available_keys(ks, t) THEN capacity_reset(ks[i], t) ELSE ks[i]]

\* acquire_key_lock: the check after db.refresh
lock_is_free(k, t) == ~(k.locked_until # NULL /\ k.locked_until > t)

\* acquire_key_lock: the write
lock_write(ks, i, t) == [ks EXCEPT ![i].locked_until = t + KEY_LOCK_SECONDS]

\* release_key_lock
\* a release that also forgets the open window
release_key_lock_new_window(ks, i) ==
    [ks EXCEPT ![i] = [ks[i] EXCEPT !.locked_until = NULL,
                                    !.minute_window_start = NULL,
                                    !.requests_this_minute = 0]]

release_key_lock(ks, i) == [ks EXCEPT ![i].locked_until = NULL]

\* mark_key_used
mark_key_used(ks, i, success, t) ==
    [ks EXCEPT ![i] =
        [ks[i] EXCEPT
            !.total_requests = @ + 1,
            !.failed_requests = IF success THEN @ ELSE @ + 1,
            !.minute_window_start =
                IF @ = NULL THEN t
                ELSE IF t - @ >= WindowSeconds THEN t ELSE @,
            !.requests_this_minute =
                IF ks[i].minute_window_start = NULL THEN 1
                ELSE IF t - ks[i].minute_window_start >= WindowSeconds THEN 1
                ELSE @ + 1,
            !.locked_until = NULL]]

\* mark_key_exhausted: the row
mark_key_exhausted(ks, i) == [ks EXCEPT ![i].is_exhausted = TRUE]

\* get_model, every statement in one step.  Result: the key returned
\* (NoKey = the call raised), the table, the manager's cache, and whether the
\* key came from the cache.
get_model(ks, cached, t) ==
    LET hit  == cached # NoKey /\ get_remaining_capacity(ks[cached], t) > 0
        ks1  == IF cached # NoKey
                THEN [ks EXCEPT ![cached] = capacity_reset(ks[cached], t)]
                ELSE ks
        sel  == get_next_available_key(ks1, t)
        ks2  == select_effect(ks1, t)
    IN  IF hit THEN [key |-> cached, keys |-> ks1, cache |-> cached, fromCache |-> TRUE]
        ELSE IF sel = NoKey
             THEN [key |-> NoKey, keys |-> ks2, cache |-> NoKey, fromCache |-> FALSE]
        ELSE IF lock_is_free(ks2[sel], t)
             THEN [key |-> sel, keys |-> lock_write(ks2, sel, t), cache |-> sel,
                   fromCache |-> FALSE]
        ELSE [key |-> NoKey, keys |-> ks2, cache |-> NoKey, fromCache |-> FALSE]

\* get_model: what it raises ("" when it returns a key): lines 265-267 when
\* the selection finds no key, lines 270-274 when the lock is not free
get_model_error(ks, cached, t) ==
    LET ks1 == IF cached # NoKey
               THEN [ks EXCEPT ![cached] = capacity_reset(ks[cached], t)]
               ELSE ks
    IN  IF get_model(ks, cached, t).key # NoKey THEN ""
        ELSE IF get_next_available_key(ks1, t) = NoKey
             THEN "No available API keys. All keys are either exhausted or at capacity."
        ELSE "All API keys are busy."

InitTable(K) ==
    /\ keys = [i \in K |-> FreshKey]
    /\ curKey = [m \in Managers |-> NoKey]
    /\ pc = [m \in Managers |-> "idle"]
    /\ attempt = [m \in Managers |-> 0]
    /\ loopKey = [m \in Managers |-> NoKey]
    /\ wake = [m \in Managers |-> 0]
    /\ selKey = [m \in Managers |-> NoKey]
    /\ lockOwner = [i \in K |-> "none"]
    /\ loops = 0

Tick ==
    /\ now + TickSeconds <= MaxTime
    /\ now' = now + TickSeconds

\* AudioProcessor.__init__: a background task gets its own APIKeyManager
NewProcessor(m) ==
    /\ pc[m] = "idle"
    /\ curKey[m] # NoKey
    /\ curKey' = [curKey EXCEPT ![m] = NoKey]
    /\ UNCHANGED <<fnVars, clientVars, watchVars, now, keys, pc, attempt, loopKey, wake, selKey, lockOwner, loops>>

\* _transcribe_with_retry is entered
StartLoop(m) ==
    /\ pc[m] = "idle"
    /\ loops < MaxLoops
    /\ loops' = loops + 1
    /\ pc' = [pc EXCEPT ![m] = "get"]
    /\ attempt' = [attempt EXCEPT ![m] = 0]
    /\ loopKey' = [loopKey EXCEPT ![m] = NoKey]
    /\ UNCHANGED <<fnVars, clientVars, watchVars, now, keys, curKey, wake, selKey, lockOwner>>

\* the function returns or raises: its locals are gone
Return(m) ==
    /\ pc' = [pc EXCEPT ![m] = "idle"]
    /\ attempt' = [attempt EXCEPT ![m] = 0]
    /\ loopKey' = [loopKey EXCEPT ![m] = NoKey]
    /\ wake' = [wake EXCEPT ![m] = 0]

\* `continue`, or the end of the loop body: the next iteration of
\* range(MAX_RETRIES), or past its end the raise of "failed after 5 attempts"
Continue(m, k) ==
    IF attempt[m] + 1 < MAX_RETRIES_LOOP
    THEN /\ pc' = [pc EXCEPT ![m] = "get"]
         /\ attempt' = [attempt EXCEPT ![m] = @ + 1]
         /\ loopKey' = [loopKey EXCEPT ![m] = k]
         /\ wake' = [wake EXCEPT ![m] = 0]
    ELSE Return(m)

\* the `other error` tail of the handler: mark_key_used(current_key, False),
\* raise on the last attempt, otherwise go round the loop.  With current_key
\* unbound (get_model raised in the first iteration) the handler itself raises.
OtherError(m, ks) ==
    IF loopKey[m] = NoKey
    THEN /\ keys' = ks
         /\ lockOwner' = lockOwner
         /\ Return(m)
    ELSE /\ keys' = mark_key_used(ks, loopKey[m], FALSE, now)
         /\ lockOwner' = [lockOwner EXCEPT ![loopKey[m]] = "none"]
         /\ Continue(m, loopKey[m])

\* line 710: self.key_manager.get_model()
LoopGetModel(m) ==
    /\ pc[m] = "get"
    /\ LET r == get_model(keys, curKey[m], now)
       IN  /\ curKey' = [curKey EXCEPT ![m] = r.cache]
           /\ IF r.key # NoKey
              THEN /\ keys' = r.keys
                   /\ loopKey' = [loopKey EXCEPT ![m] = r.key]
                   /\ pc' = [pc EXCEPT ![m] = "call"]
                   /\ lockOwner' = IF r.fromCache THEN lockOwner
                                   ELSE [lockOwner EXCEPT ![r.key] = m]
                   /\ UNCHANGED <<attempt, wake>>
              ELSE OtherError(m, r.keys)
    /\ UNCHANGED <<fnVars, clientVars, watchVars, now, selKey, loops>>

\* lines 719-724: the call succeeded; transcribe_audio records the use
\* (line 469) and the loop records it again (line 722)
CallSuccess(m) ==
    /\ pc[m] = "call"
    /\ keys' = mark_key_used(mark_key_used(keys, loopKey[m], TRUE, now),
                             loopKey[m], TRUE, now)
    /\ lockOwner' = [lockOwner EXCEPT ![loopKey[m]] = "none"]
    /\ Return(m)
    /\ UNCHANGED <<fnVars, clientVars, watchVars, now, curKey, selKey, loops>>

\* lines 731-742: a 429 / quota error
CallQuota(m) ==
    /\ pc[m] = "call"
    /\ LET ks1 == mark_key_exhausted(keys, loopKey[m])
       IN  /\ keys' = select_effect(ks1, now)
           /\ IF get_next_available_key(ks1, now) = NoKey
              THEN Return(m)
              ELSE Continue(m, loopKey[m])
    /\ curKey' = [curKey EXCEPT ![m] = NoKey]
    /\ UNCHANGED <<fnVars, clientVars, watchVars, now, selKey, lockOwner, loops>>

\* line 747
network_wait(a) == Min2(5 * Pow2(a), 30)

\* lines 746-752: a network error, then time.sleep(wait_time)
CallNetwork(m) ==
    /\ pc[m] = "call"
    /\ pc' = [pc EXCEPT ![m] = "sleep"]
    /\ wake' = [wake EXCEPT ![m] = now + network_wait(attempt[m])]
    /\ UNCHANGED <<fnVars, clientVars, watchVars, now, keys, curKey, attempt, loopKey, selKey, lockOwner, loops>>

Wake(m) ==
    /\ pc[m] = "sleep"
    /\ now >= wake[m]
    /\ Continue(m, loopKey[m])
    /\ UNCHANGED <<fnVars, clientVars, watchVars, now, keys, curKey, selKey, lockOwner, loops>>

\* lines 754-758: any other error
CallOther(m) ==
    /\ pc[m] = "call"
    /\ OtherError(m, keys)
    /\ UNCHANGED <<fnVars, clientVars, watchVars, now, curKey, selKey, loops>>

\* operator routes
toggle_key(i) ==
    /\ keys' = [keys EXCEPT ![i].is_active = ~@]
    /\ UNCHANGED <<fnVars, clientVars, watchVars, now, curKey, pc, attempt, loopKey, wake, selKey, lockOwner, loops>>

reset_key(i) ==
    /\ keys[i].is_exhausted
    /\ keys' = [keys EXCEPT ![i].is_exhausted = FALSE]
    /\ UNCHANGED <<fnVars, clientVars, watchVars, now, curKey, pc, attempt, loopKey, wake, selKey, lockOwner, loops>>

reset_all_keys ==
    /\ \E i \in DOMAIN keys : keys[i].is_exhausted
    /\ keys' = [i \in DOMAIN keys |-> [keys[i] EXCEPT !.is_exhausted = FALSE]]
    /\ UNCHANGED <<fnVars, clientVars, watchVars, now, curKey, pc, attempt, loopKey, wake, selKey, lockOwner, loops>>

PoolTick == Tick /\ UNCHANGED <<fnVars, poolVars, clientVars, watchVars>>

NextPool ==
    \/ PoolTick
    \/ \E m \in Managers : NewProcessor(m)
    \/ \E m \in Managers : StartLoop(m)
    \/ \E m \in Managers : LoopGetModel(m)
    \/ \E m \in Managers : CallSuccess(m)
    \/ \E m \in Managers : CallQuota(m)
    \/ \E m \in Managers : CallNetwork(m)
    \/ \E m \in Managers : Wake(m)
    \/ \E m \in Managers : CallOther(m)
    \/ \E i \in DOMAIN keys : toggle_key(i)
    \/ \E i \in DOMAIN keys : reset_key(i)
    \/ reset_all_keys

\* two background tasks share a table of one key
InitPool == now = 0 /\ InitTable({1}) /\ ClientIdle /\ NoCall /\ WatcherIdle

SpecPool == InitPool /\ [][NextPool]_vars

\* ================================================================== race
\* get_model statement by statement, for two sessions on the same table.
\* Each statement that reaches the database is one step.

\* get_model is entered (lines 250-263; a fresh manager has no cached key)
RaceBegin(m) ==
    /\ pc[m] = "idle"
    /\ loops < MaxCalls
    /\ loops' = loops + 1
    /\ pc' = [pc EXCEPT ![m] = "select1"]
    /\ UNCHANGED <<fnVars, clientVars, watchVars, now, keys, curKey, attempt, loopKey, wake, selKey, lockOwner>>

\* lines 266-268 and 273: api_key = self.get_next_available_key()
RaceSelect(m) ==
    /\ pc[m] \in {"select1", "select2"}
    /\ keys' = select_effect(keys, now)
    /\ selKey' = [selKey EXCEPT ![m] = get_next_available_key(keys, now)]
    /\ pc' = [pc EXCEPT ![m] =
                IF get_next_available_key(keys, now) = NoKey THEN "idle"
                ELSE IF pc[m] = "select1" THEN "check1" ELSE "check2"]
    /\ UNCHANGED <<fnVars, clientVars, watchVars, now, curKey, attempt, loopKey, wake, lockOwner, loops>>

\* acquire_key_lock lines 138-146: db.refresh(api_key) and the test of
\* locked_until; a first failure selects again, a second one raises
RaceCheck(m) ==
    /\ pc[m] \in {"check1", "check2"}
    /\ IF lock_is_free(keys[selKey[m]], now)
       THEN /\ pc' = [pc EXCEPT ![m] = "write"]
            /\ UNCHANGED selKey
       ELSE /\ pc' = [pc EXCEPT ![m] = IF pc[m] = "check1" THEN "select2" ELSE "idle"]
            /\ selKey' = [selKey EXCEPT ![m] = NoKey]
    /\ UNCHANGED <<fnVars, clientVars, watchVars, now, keys, curKey, attempt, loopKey, wake, lockOwner, loops>>

\* acquire_key_lock lines 149-150, then get_model lines 278-284: the lock is
\* written and committed and the key is returned to the caller
RaceWrite(m) ==
    /\ pc[m] = "write"
    /\ keys' = lock_write(keys, selKey[m], now)
    /\ lockOwner' = [lockOwner EXCEPT ![selKey[m]] = m]
    /\ curKey' = [curKey EXCEPT ![m] = selKey[m]]
    /\ loopKey' = [loopKey EXCEPT ![m] = selKey[m]]
    /\ selKey' = [selKey EXCEPT ![m] = NoKey]
    /\ pc' = [pc EXCEPT ![m] = "hold"]
    /\ UNCHANGED <<fnVars, clientVars, watchVars, now, attempt, wake, loops>>

\* the caller's AI call ends and its use is recorded (mark_key_used)
RaceRecord(m) ==
    /\ pc[m] = "hold"
    /\ \E success \in BOOLEAN : keys' = mark_key_used(keys, loopKey[m], success, now)
    /\ lockOwner' = [lockOwner EXCEPT ![loopKey[m]] = "none"]
    /\ curKey' = [curKey EXCEPT ![m] = NoKey]
    /\ loopKey' = [loopKey EXCEPT ![m] = NoKey]
    /\ pc' = [pc EXCEPT ![m] = "idle"]
    /\ UNCHANGED <<fnVars, clientVars, watchVars, now, attempt, wake, selKey, loops>>

\* the caller dies while it holds the key: nothing is written
RaceCrash(m) ==
    /\ pc[m] = "hold"
    /\ curKey' = [curKey EXCEPT ![m] = NoKey]
    /\ loopKey' = [loopKey EXCEPT ![m] = NoKey]
    /\ pc' = [pc EXCEPT ![m] = "idle"]
    /\ UNCHANGED <<fnVars, clientVars, watchVars, now, keys, attempt, wake, selKey, lockOwner, loops>>

NextRace ==
    \/ PoolTick
    \/ \E m \in Managers : RaceBegin(m)
    \/ \E m \in Managers : RaceSelect(m)
    \/ \E m \in Managers : RaceCheck(m)
    \/ \E m \in Managers : RaceWrite(m)
    \/ \E m \in Managers : RaceRecord(m)
    \/ \E m \in Managers : RaceCrash(m)

InitRace == now = 0 /\ InitTable(KeyIds) /\ ClientIdle /\ NoCall /\ WatcherIdle

SpecRace == InitRace /\ [][NextRace]_vars

\* ================================================================ client
\* engine/ai.py GeminiClient, driven by process_audio (engine/core.py): one
\* client per file, transcribe and then structure on that client.
RATE_LIMIT_WAIT_SECONDS == 15
MAX_429_BEFORE_EXHAUST == 3
max_retries == 5

\* _get_available_key lines 62-65: expired cooldowns go, their counts with them
clear_expired(c, t) ==
    [c EXCEPT
        !.key_cooldowns = [k \in ClientKeys |->
            IF c.key_cooldowns[k] # NULL /\ c.key_cooldowns[k] <= t
            THEN NULL ELSE c.key_cooldowns[k]],
        !.key_429_counts = [k \in ClientKeys |->
            IF c.key_cooldowns[k] # NULL /\ c.key_cooldowns[k] <= t
            THEN 0 ELSE c.key_429_counts[k]]]

\* lines 68-71
available(c) ==
    {k \in ClientKeys : k \notin c.exhausted /\ c.key_cooldowns[k] = NULL}

\* lines 79-82
in_cooldown(c) ==
    {k \in ClientKeys : k \notin c.exhausted /\ c.key_cooldowns[k] # NULL}

\* element n (from 0) of a list comprehension over enumerate(self._keys)
RECURSIVE nth(_, _)
nth(S, n) ==
    LET first == CHOOSE x \in S : \A y \in S : x <= y
    IN  IF n = 0 THEN first ELSE nth(S \ {first}, n - 1)

\* line 86: min() keeps the first of equal cooldowns
soonest(c) ==
    CHOOSE k \in in_cooldown(c) :
        \A j \in in_cooldown(c) :
            \/ c.key_cooldowns[k] < c.key_cooldowns[j]
            \/ (c.key_cooldowns[k] = c.key_cooldowns[j] /\ k <= j)

\* lines 92-95: the key waited for leaves its cooldown
leave_cooldown(c, k) ==
    [c EXCEPT !.key_cooldowns[k] = NULL, !.key_429_counts[k] = 0]

\* a daily-quota error handled like any other 429
handle_rate_limit_no_daily(c, k, daily, t) ==
    IF c.key_429_counts[k] + 1 >= MAX_429_BEFORE_EXHAUST
    THEN [c EXCEPT !.key_429_counts[k] = @ + 1,
                   !.exhausted = @ \cup {k},
                   !.key_cooldowns[k] = NULL]
    ELSE [c EXCEPT !.key_429_counts[k] = @ + 1,
                   !.key_cooldowns[k] = t + RATE_LIMIT_WAIT_SECONDS]

\* _handle_rate_limit
handle_rate_limit(c, k, daily, t) ==
    IF daily
    THEN [c EXCEPT !.exhausted = @ \cup {k},
                   !.key_cooldowns[k] = NULL,
                   !.key_429_counts[k] = 0]
    ELSE IF c.key_429_counts[k] + 1 >= MAX_429_BEFORE_EXHAUST
    THEN [c EXCEPT !.key_429_counts[k] = @ + 1,
                   !.exhausted = @ \cup {k},
                   !.key_cooldowns[k] = NULL]
    ELSE [c EXCEPT !.key_429_counts[k] = @ + 1,
                   !.key_cooldowns[k] = t + RATE_LIMIT_WAIT_SECONDS]

\* process_audio line 108: a file gets a GeminiClient of its own, and
\* line 110 enters transcribe
process_audio ==
    /\ cpc = "idle"
    /\ files' = files + 1
    /\ client' = GeminiClient
    /\ streak' = [k \in ClientKeys |-> 0]
    /\ log' = <<>>
    /\ cresult' = "none"
    /\ cpc' = "get"
    /\ cop' = "transcribe"
    /\ cattempt' = 0
    /\ UNCHANGED <<ckey, cwake>>

ProcessAudio ==
    /\ files < MaxFiles
    /\ process_audio
    /\ UNCHANGED <<fnVars, poolVars, watchVars, now>>

\* transcribe / structure return or raise, and with them process_audio
ClientReturn ==
    /\ cpc' = "idle"
    /\ cop' = "none"
    /\ cattempt' = 0
    /\ ckey' = NULL
    /\ cwake' = 0

\* a loop that goes round once more than max_retries
ClientContinue_one_more ==
    IF cattempt + 1 <= max_retries
    THEN /\ cpc' = "get"
         /\ cattempt' = cattempt + 1
         /\ ckey' = NULL
         /\ cwake' = 0
         /\ UNCHANGED <<cop, cresult>>
    ELSE ClientReturn /\ cresult' = "failed after attempts"

\* `continue`: the next iteration, or past the last one the raise of
\* "failed after N attempts"
ClientContinue ==
    IF cattempt + 1 < max_retries
    THEN /\ cpc' = "get"
         /\ cattempt' = cattempt + 1
         /\ ckey' = NULL
         /\ cwake' = 0
         /\ UNCHANGED <<cop, cresult>>
    ELSE ClientReturn /\ cresult' = "failed after attempts"

\* _get_available_key, lines 59-100
GetAvailableKey ==
    /\ cpc = "get"
    /\ LET c == clear_expired(client, now)
       IN  IF available(c) # {}
           THEN /\ ckey' = nth(available(c), c.key_index % Cardinality(available(c)))
                /\ client' = [c EXCEPT !.key_index = @ + 1]
                /\ cpc' = "call"
                /\ UNCHANGED <<cop, cattempt, cwake, cresult, log>>
           ELSE IF in_cooldown(c) # {}
           THEN \* every cooldown left is in the future: sleep wait_time + 1
                /\ ckey' = soonest(c)
                /\ cwake' = c.key_cooldowns[soonest(c)] + 1
                /\ client' = c
                /\ cpc' = "wait"
                /\ log' = Append(log, <<"cooldown",
                                        c.key_cooldowns[soonest(c)] + 1 - now>>)
                /\ UNCHANGED <<cop, cattempt, cresult>>
           ELSE \* "All API keys exhausted"
                /\ client' = c
                /\ ClientReturn
                /\ cresult' = "keys exhausted"
                /\ UNCHANGED log
    /\ UNCHANGED <<fnVars, poolVars, watchVars, now, files, streak>>

\* lines 92-95, after the sleep of line 90
WaitDone ==
    /\ cpc = "wait"
    /\ now >= cwake
    /\ client' = leave_cooldown(client, ckey)
    /\ cpc' = "call"
    /\ cwake' = 0
    /\ UNCHANGED <<fnVars, poolVars, watchVars, now, cop, cattempt, ckey, files, streak, log,
                   cresult>>

\* lines 191-194 / 240-243: the call succeeded; after transcribe the
\* pipeline goes on to structure (core.py line 116)
CallReturns ==
    /\ cpc = "call"
    /\ client' = [client EXCEPT !.key_429_counts[ckey] = 0]
    /\ streak' = [streak EXCEPT ![ckey] = 0]
    /\ IF cop = "transcribe"
       THEN /\ cop' = "structure"
            /\ cpc' = "get"
            /\ cattempt' = 0
            /\ ckey' = NULL
            /\ cwake' = 0
            /\ UNCHANGED cresult
            /\ log' = <<>>
       ELSE /\ ClientReturn
            /\ cresult' = "ok"
            /\ log' = Append(log, <<"ok", 0>>)
    /\ UNCHANGED <<fnVars, poolVars, watchVars, now, files>>

\* lines 198-200: a quota error, daily or not
CallRateLimited(daily) ==
    /\ cpc = "call"
    /\ client' = handle_rate_limit(client, ckey, daily, now)
    /\ streak' = IF daily THEN streak
                 ELSE [streak EXCEPT ![ckey] = Min2(@ + 1, MAX_429_BEFORE_EXHAUST)]
    /\ log' = Append(log, <<"quota", 0>>)
    /\ ClientContinue
    /\ UNCHANGED <<fnVars, poolVars, watchVars, now, files>>

\* a wait that grows by 5 seconds per attempt
client_network_wait_linear(a) == Min2(5 * (a + 1), 30)

\* a wait that doubles without cap
client_network_wait_uncapped(a) == 5 * Pow2(a)

\* line 202
client_network_wait(a) == Min2(5 * Pow2(a), 30)

\* lines 201-205: a network error, then time.sleep(wait)
CallNetworkError ==
    /\ cpc = "call"
    /\ cpc' = "sleep"
    /\ cwake' = now + client_network_wait(cattempt)
    /\ log' = Append(log, <<"network", client_network_wait(cattempt)>>)
    /\ UNCHANGED <<fnVars, poolVars, watchVars, now, client, cop, cattempt, ckey, files, streak,
                   cresult>>

ClientWake ==
    /\ cpc = "sleep"
    /\ now >= cwake
    /\ ClientContinue
    /\ UNCHANGED <<fnVars, poolVars, watchVars, now, client, files, streak, log>>

\* line 206: any other error is raised at once
CallRaises ==
    /\ cpc = "call"
    /\ ClientReturn
    /\ cresult' = "raised"
    /\ log' = Append(log, <<"raised", 0>>)
    /\ UNCHANGED <<fnVars, poolVars, watchVars, now, client, files, streak>>

ClientTick == Tick /\ UNCHANGED <<fnVars, poolVars, clientVars, watchVars>>

NextClient ==
    \/ ClientTick
    \/ ProcessAudio
    \/ GetAvailableKey
    \/ WaitDone
    \/ CallReturns
    \/ \E daily \in BOOLEAN : CallRateLimited(daily)
    \/ CallNetworkError
    \/ ClientWake
    \/ CallRaises

InitClient == now = 0 /\ InitTable({1}) /\ ClientIdle /\ NoCall /\ WatcherIdle

SpecClient == InitClient /\ [][NextClient]_vars

\* ============================================================= sequence
\* One APIKeyManager, two keys, and a caller that repeats get_model followed
\* by one mark_key_used(key, success=True), at any pace.

\* self.key_manager.get_model() returns a key or raises
SeqAcquire ==
    /\ pc["m1"] = "idle"
    /\ loops < MaxSeqCalls
    /\ loops' = loops + 1
    /\ LET r == get_model(keys, curKey["m1"], now)
       IN  /\ keys' = r.keys
           /\ curKey' = [curKey EXCEPT !["m1"] = r.cache]
           /\ loopKey' = [loopKey EXCEPT !["m1"] = r.key]
           /\ pc' = [pc EXCEPT !["m1"] = IF r.key = NoKey THEN "idle" ELSE "hold"]
           /\ lockOwner' = IF r.key = NoKey \/ r.fromCache THEN lockOwner
                           ELSE [lockOwner EXCEPT ![r.key] = "m1"]
    /\ UNCHANGED <<fnVars, clientVars, watchVars, now, attempt, wake, selKey>>

\* self.key_manager.mark_key_used(current_key, success=True)
SeqRecord ==
    /\ pc["m1"] = "hold"
    /\ keys' = mark_key_used(keys, loopKey["m1"], TRUE, now)
    /\ lockOwner' = [lockOwner EXCEPT ![loopKey["m1"]] = "none"]
    /\ loopKey' = [loopKey EXCEPT !["m1"] = NoKey]
    /\ pc' = [pc EXCEPT !["m1"] = "idle"]
    /\ UNCHANGED <<fnVars, clientVars, watchVars, now, curKey, attempt, wake, selKey, loops>>

SeqTick ==
    /\ now + TickSeconds <= MaxSeqTime
    /\ now' = now + TickSeconds
    /\ UNCHANGED <<fnVars, poolVars, clientVars, watchVars>>

NextSeq ==
    \/ SeqTick
    \/ SeqAcquire
    \/ SeqRecord

InitSeq == now = 0 /\ InitTable(KeyIds) /\ ClientIdle /\ NoCall /\ WatcherIdle

SpecSeq == InitSeq /\ [][NextSeq]_vars

\* ============================================================== registry
\* engine/registry.py: the table processed_files as a set of rows.  Of a row
\* the columns id, file_hash, success, error, retry_count, last_retry_at and
\* skipped are kept; the descriptive columns (filename, title, paths,
\* processed_at ...) are not read by any decision and are left out.
MAX_RETRIES == 5
RETRY_BACKOFF_MINUTES == <<1, 5, 15, 60, 240>>
stability_seconds == 10
scan_interval_seconds == 5

\* the value of the error column: NULL or an error text
NoError == "NULL"

\* the rows a WHERE file_hash = ? reaches
rows_of(rs, h) == {r \in rs : r.file_hash = h}

\* line 164: the minutes to wait after the retry_count-th failure
\* the table read at retry_count instead of retry_count - 1
backoff_minutes_next_entry(retry_count) ==
    RETRY_BACKOFF_MINUTES[Min2(retry_count, Len(RETRY_BACKOFF_MINUTES) - 1) + 1]

backoff_minutes(retry_count) ==
    RETRY_BACKOFF_MINUTES[Min2(retry_count - 1, Len(RETRY_BACKOFF_MINUTES) - 1) + 1]

\* should_skip asking for a user's skip before it asks for success
should_skip_skipped_first(rs, h, t) ==
    IF rows_of(rs, h) = {} THEN ""
    ELSE LET row == CHOOSE r \in rows_of(rs, h) :
                        \A q \in rows_of(rs, h) : r.id <= q.id
         IN  IF row.skipped THEN "skipped_by_user"
             ELSE IF row.success THEN "already_processed"
             ELSE IF row.retry_count >= MAX_RETRIES THEN "max_retries_exceeded"
             ELSE IF /\ row.last_retry_at # NULL
                     /\ row.retry_count > 0
                     /\ t < row.last_retry_at + 60 * backoff_minutes(row.retry_count)
                  THEN "backoff"
             ELSE ""

\* should_skip: "" for (False, ""), otherwise the reason of (True, reason)
should_skip(rs, h, t) ==
    IF rows_of(rs, h) = {} THEN ""
    ELSE LET row == CHOOSE r \in rows_of(rs, h) :
                        \A q \in rows_of(rs, h) : r.id <= q.id
         IN  IF row.success THEN "already_processed"
             ELSE IF row.skipped THEN "skipped_by_user"
             ELSE IF row.retry_count >= MAX_RETRIES THEN "max_retries_exceeded"
             ELSE IF /\ row.last_retry_at # NULL
                     /\ row.retry_count > 0
                     /\ t < row.last_retry_at + 60 * backoff_minutes(row.retry_count)
                  THEN "backoff"
             ELSE ""

\* the row an INSERT of record_success writes (defaults: retry_count 0,
\* last_retry_at NULL, skipped 0)
success_row(id, h) ==
    [id |-> id, file_hash |-> h, success |-> TRUE, error |-> NoError,
     retry_count |-> 0, last_retry_at |-> NULL, skipped |-> FALSE]

\* a plain INSERT on a table without the UNIQUE constraint
record_success_plain_insert(rs, id, h) == rs \cup {success_row(id, h)}

\* record_success: INSERT OR REPLACE removes the rows that conflict on the
\* UNIQUE column file_hash and inserts the new row under a new id
record_success(rs, id, h) ==
    (rs \ rows_of(rs, h)) \cup {success_row(id, h)}

\* a failure written with INSERT OR REPLACE: the row is replaced, its flags
\* fall back to the defaults
record_failure_or_replace(rs, id, h, error, t) ==
    LET old == rows_of(rs, h)
        count == IF old = {} THEN 1
                 ELSE (CHOOSE r \in old : TRUE).retry_count + 1
    IN  (rs \ old) \cup {[id |-> id, file_hash |-> h, success |-> FALSE,
                          error |-> error, retry_count |-> count,
                          last_retry_at |-> t, skipped |-> FALSE]}

\* record_failure with its error argument: INSERT ... ON CONFLICT(file_hash)
\* DO UPDATE of error, retry_count and last_retry_at
record_failure_error(rs, id, h, error, t) ==
    IF rows_of(rs, h) = {}
    THEN rs \cup {[id |-> id, file_hash |-> h, success |-> FALSE,
                   error |-> error, retry_count |-> 1, last_retry_at |-> t,
                   skipped |-> FALSE]}
    ELSE {IF r.file_hash = h
          THEN [r EXCEPT !.error = error, !.retry_count = @ + 1,
                         !.last_retry_at = t]
          ELSE r : r \in rs}

\* record_failure as the watcher calls it, whatever the error text
record_failure(rs, id, h, t) == record_failure_error(rs, id, h, "error", t)

\* skip_file, and the route api_skip_file with the same statement
skip_file(rs, h) ==
    {IF r.file_hash = h THEN [r EXCEPT !.skipped = TRUE] ELSE r : r \in rs}

\* an unskip that keeps the retry count
unskip_file_keeping_count(rs, h) ==
    {IF r.file_hash = h THEN [r EXCEPT !.skipped = FALSE] ELSE r : r \in rs}

\* unskip_file
unskip_file(rs, h) ==
    {IF r.file_hash = h THEN [r EXCEPT !.skipped = FALSE, !.retry_count = 0]
     ELSE r : r \in rs}

\* clear_failed
clear_failed(rs) == {r \in rs : r.success}

\* skip_all_failed
skip_all_failed(rs) ==
    {IF ~r.success /\ ~r.skipped THEN [r EXCEPT !.skipped = TRUE] ELSE r : r \in rs}

\* route api_clear_failed
api_clear_failed(rs) ==
    {IF ~r.success
     THEN [r EXCEPT !.retry_count = 0, !.last_retry_at = NULL,
                    !.skipped = FALSE, !.error = NoError]
     ELSE r : r \in rs}

\* route api_retry_file
api_retry_file(rs, h) ==
    {IF r.file_hash = h
     THEN [r EXCEPT !.skipped = FALSE, !.retry_count = 0, !.last_retry_at = NULL]
     ELSE r : r \in rs}

\* routes api_reprocess_registry_note and api_delete_registry_note
api_reprocess_registry_note(rs, id) == {r \in rs : r.id # id}

\* =============================================================== watcher
\* engine/watcher.py FolderWatcher on the registry, with the files of the
\* watched folder and the operator's routes as its environment.

\* st_size of a file with the given content
file_size(h) == IF h = "h1" THEN 1 ELSE 2

\* _is_stable without the test of the elapsed time
is_stable_no_wait(p, t) == file_sizes[p] = file_size(folder[p])

\* _is_stable, the value it returns
is_stable(p, t) ==
    /\ file_sizes[p] = file_size(folder[p])
    /\ t - (IF file_stable_since[p] = NULL THEN t ELSE file_stable_since[p])
            >= stability_seconds

\* a first loop that lets through only hashes the registry knows already
to_process_registered_only(p, t) ==
    /\ folder[p] # NoFile
    /\ is_stable(p, t)
    /\ rows_of(rows, folder[p]) # {}
    /\ should_skip(rows, folder[p], t) = ""

\* the paths of the first loop of _scan that reach files_to_process
to_process(p, t) ==
    /\ folder[p] # NoFile
    /\ is_stable(p, t)
    /\ should_skip(rows, folder[p], t) = ""

\* files_to_process: (path, hash) of the paths above, in rglob order
RECURSIVE collect(_, _)
collect(n, t) ==
    IF n > Len(PathOrder) THEN <<>>
    ELSE IF to_process(PathOrder[n], t)
         THEN <<<<PathOrder[n], folder[PathOrder[n]]>>>> \o collect(n + 1, t)
         ELSE collect(n + 1, t)

\* what the first loop of _scan leaves in a tracking dict: a new or changed
\* size is recorded (lines 173-176), the entry of a skipped file is popped
\* (lines 119-120)
tracked(d, p, new, t) ==
    IF folder[p] = NoFile THEN d[p]
    ELSE IF file_sizes[p] # file_size(folder[p]) THEN new
    ELSE IF is_stable(p, t) /\ should_skip(rows, folder[p], t) # "" THEN NULL
    ELSE d[p]

\* a file appears in the watched folder
FileArrives(p, h) ==
    /\ folder[p] = NoFile
    /\ folder' = [folder EXCEPT ![p] = h]
    /\ UNCHANGED <<fnVars, poolVars, clientVars, now, file_sizes, file_stable_since, rows,
                   nextId, queue, wpc, running, status, ops>>

\* a file that is still being written grows
FileGrows(p) ==
    /\ folder[p] = "h1"
    /\ folder' = [folder EXCEPT ![p] = "h2"]
    /\ UNCHANGED <<fnVars, poolVars, clientVars, now, file_sizes, file_stable_since, rows,
                   nextId, queue, wpc, running, status, ops>>

\* a file is deleted or moved away by its owner or the sync client
FileRemoved(p) ==
    /\ folder[p] # NoFile
    /\ folder' = [folder EXCEPT ![p] = NoFile]
    /\ UNCHANGED <<fnVars, poolVars, clientVars, now, file_sizes, file_stable_since, rows,
                   nextId, queue, wpc, running, status, ops>>

\* run, lines 68-79
Run ==
    /\ wpc = "init"
    /\ running' = TRUE
    /\ wpc' = "scan"
    /\ UNCHANGED <<fnVars, poolVars, clientVars, now, folder, file_sizes, file_stable_since,
                   rows, nextId, queue, status, ops>>

\* _scan lines 101-131, and with nothing to process line 148
scan_collect ==
    /\ file_sizes' = [p \in Paths |->
            tracked(file_sizes, p, file_size(folder[p]), now)]
    /\ file_stable_since' = [p \in Paths |-> tracked(file_stable_since, p, now, now)]
    /\ queue' = collect(1, now)
    /\ IF collect(1, now) = <<>>
       THEN /\ status' = [state |-> "idle", files_in_queue |-> 0]
            /\ wpc' = "sleep"
       ELSE /\ status' = [state |-> "processing",
                          files_in_queue |-> Len(collect(1, now))]
            /\ wpc' = "process"
    /\ UNCHANGED <<fnVars, poolVars, clientVars, now, folder, rows, nextId, running, ops>>

\* _scan lines 93-131 in one step
Scan == wpc = "scan" /\ scan_collect

\* _scan lines 134-143 and _process_file lines 215-240: the next file of
\* the batch is copied and handed to the pipeline
ProcessFile ==
    /\ wpc = "process"
    /\ folder[queue[1][1]] # NoFile
    /\ status' = [state |-> "processing", files_in_queue |-> Len(queue)]
    /\ wpc' = "pipeline"
    /\ UNCHANGED <<fnVars, poolVars, clientVars, now, folder, file_sizes, file_stable_since,
                   rows, nextId, queue, running, ops>>

\* _scan lines 134-148 and _process_file line 216: the file of the batch is
\* gone, stat() raises before the copy, _scan logs it and goes on; nothing
\* is recorded and the path's tracking state stays
SourceMissing ==
    /\ wpc = "process"
    /\ folder[queue[1][1]] = NoFile
    /\ queue' = Tail(queue)
    /\ IF Tail(queue) = <<>>
       THEN /\ status' = [state |-> "idle", files_in_queue |-> 0]
            /\ wpc' = "sleep"
       ELSE /\ status' = [state |-> "processing", files_in_queue |-> Len(queue)]
            /\ wpc' = "process"
    /\ UNCHANGED <<fnVars, poolVars, clientVars, now, folder, file_sizes, file_stable_since,
                   rows, nextId, running, ops>>

\* _process_file removing the original once it has been processed with
\* success
pipeline_ends_removing_source(ok) ==
    /\ LET p == queue[1][1]
           h == queue[1][2]
       IN  /\ rows' = IF ok THEN record_success(rows, nextId, h)
                      ELSE record_failure(rows, nextId, h, now)
           /\ nextId' = IF ok \/ rows_of(rows, h) = {} THEN nextId + 1 ELSE nextId
           /\ file_sizes' = [file_sizes EXCEPT ![p] = NULL]
           /\ file_stable_since' = [file_stable_since EXCEPT ![p] = NULL]
    /\ queue' = Tail(queue)
    /\ IF Tail(queue) = <<>>
       THEN /\ status' = [state |-> "idle", files_in_queue |-> 0]
            /\ wpc' = "sleep"
       ELSE /\ status' = status
            /\ wpc' = "process"
    /\ folder' = IF ok THEN [folder EXCEPT ![queue[1][1]] = NoFile] ELSE folder
    /\ UNCHANGED <<fnVars, poolVars, clientVars, now, running, ops>>

\* _process_file lines 240-303 and _scan line 148: the pipeline returns or
\* raises, the registry records it, the path's tracking state is popped
pipeline_ends(ok) ==
    /\ LET p == queue[1][1]
           h == queue[1][2]
       IN  /\ rows' = IF ok THEN record_success(rows, nextId, h)
                      ELSE record_failure(rows, nextId, h, now)
           /\ nextId' = IF ok \/ rows_of(rows, h) = {} THEN nextId + 1 ELSE nextId
           /\ file_sizes' = [file_sizes EXCEPT ![p] = NULL]
           /\ file_stable_since' = [file_stable_since EXCEPT ![p] = NULL]
    /\ queue' = Tail(queue)
    /\ IF Tail(queue) = <<>>
       THEN /\ status' = [state |-> "idle", files_in_queue |-> 0]
            /\ wpc' = "sleep"
       ELSE /\ status' = status
            /\ wpc' = "process"
    /\ UNCHANGED <<fnVars, poolVars, clientVars, now, folder, running, ops>>

PipelineEnds(ok) == wpc = "pipeline" /\ pipeline_ends(ok)

\* run line 85: time.sleep(scan_interval_seconds), then the next scan; the
\* clock of a run ends at limit
SleepUntil(limit) ==
    /\ wpc = "sleep"
    /\ running
    /\ now + scan_interval_seconds <= limit
    /\ now' = now + scan_interval_seconds
    /\ wpc' = "scan"
    /\ UNCHANGED <<fnVars, poolVars, clientVars, folder, file_sizes, file_stable_since, rows,
                   nextId, queue, running, status, ops>>

Sleep == SleepUntil(MaxWatchTime)

\* run_watcher.py shutdown: watcher.stop() and sys.exit(0), at any point
Stop ==
    /\ wpc \notin {"init", "exited"}
    /\ running' = FALSE
    /\ status' = [state |-> "stopped", files_in_queue |-> 0]
    /\ wpc' = "exited"
    /\ queue' = <<>>
    /\ UNCHANGED <<fnVars, poolVars, clientVars, now, folder, file_sizes, file_stable_since,
                   rows, nextId, ops>>

\* an operator request that rewrites the table
Operator(rs) ==
    /\ ops < MaxOps
    /\ ops' = ops + 1
    /\ rs # rows
    /\ rows' = rs
    /\ UNCHANGED <<fnVars, poolVars, clientVars, now, folder, file_sizes, file_stable_since,
                   nextId, queue, wpc, running, status>>

OpSkip(h) == Operator(skip_file(rows, h))
OpUnskip(h) == Operator(unskip_file(rows, h))
OpClearFailed == Operator(clear_failed(rows))
OpSkipAllFailed == Operator(skip_all_failed(rows))
OpApiClearFailed == Operator(api_clear_failed(rows))
OpRetryFile(h) == Operator(api_retry_file(rows, h))
OpReprocess(id) == Operator(api_reprocess_registry_note(rows, id))

NextWatcher ==
    \/ \E p \in Paths, h \in Hashes : FileArrives(p, h)
    \/ \E p \in Paths : FileGrows(p)
    \/ Run
    \/ Scan
    \/ ProcessFile
    \/ \E ok \in BOOLEAN : PipelineEnds(ok)
    \/ Sleep
    \/ Stop
    \/ \E h \in Hashes : OpSkip(h)
    \/ \E h \in Hashes : OpUnskip(h)
    \/ OpClearFailed
    \/ OpSkipAllFailed
    \/ OpApiClearFailed
    \/ \E h \in Hashes : OpRetryFile(h)
    \/ \E r \in rows : OpReprocess(r.id)

InitWatcher == now = 0 /\ InitTable({1}) /\ ClientIdle /\ NoCall /\ WatcherIdle

SpecWatcher == InitWatcher /\ [][NextWatcher]_vars

\* ================================================================ store
\* The watcher on a registry database whose statements can fail (locked by
\* the web application, disk full): any call of the registry may raise.

\* _scan line 96 and run lines 82-85: update_watcher_status("scanning")
\* raises out of _scan; the handler of run writes the state "error", and
\* when that statement raises as well (again), the exception leaves the
\* while loop and run
ScanStatusFails(again) ==
    /\ wpc = "scan"
    /\ IF again
       THEN /\ wpc' = "crashed"
            /\ UNCHANGED status
       ELSE /\ wpc' = "sleep"
            /\ status' = [state |-> "error", files_in_queue |-> 0]
    /\ UNCHANGED <<fnVars, poolVars, clientVars, now, folder, file_sizes, file_stable_since,
                   rows, nextId, queue, running, ops>>

\* _process_file lines 240-303 and _scan lines 144-148: record_success, or
\* record_failure after a failed pipeline, raises and then record_failure
\* in the handler raises too; _scan logs it and goes on.  No entry is
\* written and the path's tracking state stays.
RecordFails ==
    /\ wpc = "pipeline"
    /\ queue' = Tail(queue)
    /\ IF Tail(queue) = <<>>
       THEN /\ status' = [state |-> "idle", files_in_queue |-> 0]
            /\ wpc' = "sleep"
       ELSE /\ status' = status
            /\ wpc' = "process"
    /\ UNCHANGED <<fnVars, poolVars, clientVars, now, folder, file_sizes, file_stable_since,
                   rows, nextId, running, ops>>

NextStore ==
    \/ \E p \in Paths, h \in Hashes : FileArrives(p, h)
    \/ Run
    \/ Scan
    \/ \E again \in BOOLEAN : ScanStatusFails(again)
    \/ ProcessFile
    \/ \E ok \in BOOLEAN : PipelineEnds(ok)
    \/ RecordFails
    \/ Sleep

SpecStore == InitWatcher /\ [][NextStore]_vars

\* ================================================================= stop
\* The watcher and the signal handler of run_watcher.py, which runs in the
\* main thread between two bytecodes of whatever the watcher is doing.

\* shutdown lands inside the status write of _scan lines 137-142, after
\* its UPDATE and before its commit: running is set, the UPDATE of stop()
\* on a second connection finds the database locked and raises, so
\* sys.exit(0) is not reached; the exception unwinds the interrupted write
\* (rolled back) and is caught at line 144; the file is not processed and
\* _scan goes on with the batch, to line 148 after its last file
StopInterrupted ==
    /\ wpc = "process"
    /\ running
    /\ running' = FALSE
    /\ queue' = Tail(queue)
    /\ IF Tail(queue) = <<>>
       THEN /\ status' = [state |-> "idle", files_in_queue |-> 0]
            /\ wpc' = "sleep"
       ELSE /\ status' = status
            /\ wpc' = "process"
    /\ UNCHANGED <<fnVars, poolVars, clientVars, now, folder, file_sizes, file_stable_since,
                   rows, nextId, ops>>

\* run lines 79-85: after the sleep the loop condition is false, run returns
RunReturns ==
    /\ wpc = "sleep"
    /\ ~running
    /\ wpc' = "exited"
    /\ UNCHANGED <<fnVars, poolVars, clientVars, now, folder, file_sizes, file_stable_since,
                   rows, nextId, queue, running, status, ops>>

NextStop ==
    \/ \E p \in Paths, h \in Hashes : FileArrives(p, h)
    \/ Run
    \/ Scan
    \/ ProcessFile
    \/ \E ok \in BOOLEAN : PipelineEnds(ok)
    \/ Sleep
    \/ Stop
    \/ StopInterrupted
    \/ RunReturns

SpecStop == InitWatcher /\ [][NextStop]_vars

\* ============================================================= pipeline
\* The watcher with the GeminiClient inside its pipeline: process_audio runs
\* transcribe and structure, and what it returns or raises decides what
\* _process_file records.

\* _process_file line 240: process_audio is called on the copy
PipelineStart ==
    /\ wpc = "pipeline"
    /\ process_audio
    /\ wpc' = "running"
    /\ UNCHANGED <<fnVars, poolVars, now, folder, file_sizes, file_stable_since, rows, nextId,
                   queue, running, status, ops>>

\* _process_file lines 240-303: process_audio has returned or raised
PipelineReturns ==
    /\ wpc = "running"
    /\ cpc = "idle"
    /\ pipeline_ends(cresult = "ok")

\* time passes while the pipeline or the watcher sleeps
PipelineTick ==
    /\ now + TickSeconds <= MaxPipelineTime
    /\ now' = now + TickSeconds
    /\ UNCHANGED <<fnVars, poolVars, clientVars, watchVars>>

NextPipeline ==
    \/ Run
    \/ Scan
    \/ ProcessFile
    \/ PipelineStart
    \/ GetAvailableKey
    \/ WaitDone
    \/ CallReturns
    \/ \E daily \in BOOLEAN : CallRateLimited(daily)
    \/ CallNetworkError
    \/ ClientWake
    \/ CallRaises
    \/ PipelineTick
    \/ PipelineReturns
    \/ Sleep

\* one recording lies complete in the watched folder when the watcher starts
InitPipeline ==
    /\ now = 0 /\ InitTable({1}) /\ ClientIdle /\ NoCall
    /\ folder = [p \in Paths |-> IF p = PathOrder[1] THEN "h1" ELSE NoFile]
    /\ file_sizes = [p \in Paths |-> NULL]
    /\ file_stable_since = [p \in Paths |-> NULL]
    /\ rows = {}
    /\ nextId = 1
    /\ queue = <<>>
    /\ wpc = "init"
    /\ running = FALSE
    /\ status = [state |-> "starting", files_in_queue |-> 0]
    /\ ops = 0

SpecPipeline == InitPipeline /\ [][NextPipeline]_vars

\* ============================================================== acquire
\* APIKeyManager.get_model applied once by a new manager to a table of two
\* keys in any condition the columns allow, 15 seconds after the manager's
\* clock began.

\* the rows of api_keys: a lock that has ended or not, no window or a
\* window begun at 0 with one use or with all of them
KeyStates ==
    {k \in [is_active : BOOLEAN, is_exhausted : BOOLEAN,
            locked_until : {NULL, 10, 20}, minute_window_start : {NULL, 0},
            requests_this_minute : {0, 1, MAX_REQUESTS_PER_MINUTE},
            total_requests : {0, 1, MAX_REQUESTS_PER_MINUTE},
            failed_requests : {0}] :
        /\ k.total_requests = k.requests_this_minute
        /\ (k.minute_window_start = NULL) = (k.requests_this_minute = 0)}

ApplyGetModel ==
    /\ call.fn = "get_model"
    /\ result = "pending"
    /\ LET r == get_model(keys, curKey["m1"], now)
       IN  /\ keys' = r.keys
           /\ curKey' = [curKey EXCEPT !["m1"] = r.cache]
           /\ loopKey' = [loopKey EXCEPT !["m1"] = r.key]
           /\ lockOwner' = IF r.key = NoKey \/ r.fromCache THEN lockOwner
                           ELSE [lockOwner EXCEPT ![r.key] = "m1"]
    /\ result' = get_model_error(keys, curKey["m1"], now)
    /\ UNCHANGED <<now, clientVars, watchVars, call, writes, recording, pc, attempt, wake, selKey, loops>>

NextAcquire == ApplyGetModel

InitAcquire ==
    /\ now = 15
    /\ keys \in [KeyIds -> KeyStates]
    /\ curKey = [m \in Managers |-> NoKey]
    /\ pc = [m \in Managers |-> "idle"]
    /\ attempt = [m \in Managers |-> 0]
    /\ loopKey = [m \in Managers |-> NoKey]
    /\ wake = [m \in Managers |-> 0]
    /\ selKey = [m \in Managers |-> NoKey]
    /\ lockOwner = [i \in KeyIds |-> "none"]
    /\ loops = 0
    /\ ClientIdle /\ WatcherIdle
    /\ call = [fn |-> "get_model", keys |-> keys]
    /\ result = "pending"
    /\ writes = <<>>
    /\ recording = NoRecording

SpecAcquire == InitAcquire /\ [][NextAcquire]_vars

\* ================================================================ usage
\* release_key_lock and mark_key_used applied once to one key of a table of
\* two keys in any condition the columns allow, at a second where the
\* window begun at 0 is still open (15) and at the second it ends (60).

UsageCalls ==
    [fn : {"release_key_lock"}, key : KeyIds, keys : [KeyIds -> KeyStates]]
    \cup [fn : {"mark_key_used"}, key : KeyIds, success : BOOLEAN,
          keys : [KeyIds -> KeyStates]]

ApplyRelease ==
    /\ call.fn = "release_key_lock"
    /\ result = "pending"
    /\ keys' = release_key_lock(keys, call.key)
    /\ lockOwner' = [lockOwner EXCEPT ![call.key] = "none"]
    /\ result' = "done"
    /\ UNCHANGED <<now, clientVars, watchVars, call, writes, recording, curKey, pc, attempt, loopKey, wake, selKey, loops>>

ApplyMarkUsed ==
    /\ call.fn = "mark_key_used"
    /\ result = "pending"
    /\ keys' = mark_key_used(keys, call.key, call.success, now)
    /\ lockOwner' = [lockOwner EXCEPT ![call.key] = "none"]
    /\ result' = "done"
    /\ UNCHANGED <<now, clientVars, watchVars, call, writes, recording, curKey, pc, attempt, loopKey, wake, selKey, loops>>

NextUsage == ApplyRelease \/ ApplyMarkUsed

InitUsage ==
    /\ now \in {15, WindowSeconds}
    /\ call \in UsageCalls
    /\ keys = call.keys
    /\ curKey = [m \in Managers |-> NoKey]
    /\ pc = [m \in Managers |-> "idle"]
    /\ attempt = [m \in Managers |-> 0]
    /\ loopKey = [m \in Managers |-> NoKey]
    /\ wake = [m \in Managers |-> 0]
    /\ selKey = [m \in Managers |-> NoKey]
    /\ lockOwner = [i \in KeyIds |-> "none"]
    /\ loops = 0
    /\ ClientIdle /\ WatcherIdle
    /\ result = "pending"
    /\ writes = <<>>
    /\ recording = NoRecording

SpecUsage == InitUsage /\ [][NextUsage]_vars

\* ============================================================= classify
\* The error classification of GeminiClient.transcribe / structure applied
\* to one error message.  A message is the sequence of its characters.

MaxFragments == 2

UpperCase == <<"A", "B", "C", "D", "E", "F", "G", "H", "I", "J", "K", "L", "M", "N", "O", "P", "Q", "R", "S", "T", "U", "V", "W", "X", "Y", "Z">>
LowerCase == <<"a", "b", "c", "d", "e", "f", "g", "h", "i", "j", "k", "l", "m", "n", "o", "p", "q", "r", "s", "t", "u", "v", "w", "x", "y", "z">>

\* str.lower()
lower(s) ==
    [i \in 1..Len(s) |->
        IF \E j \in 1..Len(UpperCase) : UpperCase[j] = s[i]
        THEN LowerCase[CHOOSE j \in 1..Len(UpperCase) : UpperCase[j] = s[i]]
        ELSE s[i]]

\* str.replace(c, "")
replace(s, c) == SelectSeq(s, LAMBDA x : x # c)

\* m in s
contains(s, m) ==
    \E i \in 0..(Len(s) - Len(m)) : SubSeq(s, i + 1, i + Len(m)) = m

\* line 24
QUOTA_MARKERS ==
    {<<"4", "2", "9">>,
     <<"q", "u", "o", "t", "a">>,
     <<"r", "a", "t", "e", " ", "l", "i", "m", "i", "t">>,
     <<"r", "e", "s", "o", "u", "r", "c", "e", " ", "e", "x", "h", "a", "u", "s", "t", "e", "d">>,
     <<"t", "o", "o", " ", "m", "a", "n", "y", " ", "r", "e", "q", "u", "e", "s", "t", "s">>}

\* line 25
NETWORK_MARKERS ==
    {<<"b", "r", "o", "k", "e", "n", " ", "p", "i", "p", "e">>,
     <<"e", "r", "r", "n", "o", " ", "3", "2">>,
     <<"c", "o", "n", "n", "e", "c", "t", "i", "o", "n">>,
     <<"r", "e", "s", "e", "t">>,
     <<"t", "i", "m", "e", "o", "u", "t">>}

\* line 26
DAILY_QUOTA_MARKERS ==
    {<<"p", "e", "r", "_", "d", "a", "y">>,
     <<"p", "e", "r", "d", "a", "y">>,
     <<"d", "a", "i", "l", "y">>,
     <<"q", "u", "o", "t", "a", "e", "x", "c", "e", "e", "d", "e", "d">>,
     <<"l", "i", "m", "i", "t", ":", " ", "0">>}

\* _is_quota_error
is_quota_error(e) == \E m \in QUOTA_MARKERS : contains(lower(e), m)

\* _is_daily_quota_error: the message lowered and without spaces and
\* underscores, the markers as they are written
is_daily_quota_error(e) ==
    LET s == replace(replace(lower(e), " "), "_")
    IN  \E m \in DAILY_QUOTA_MARKERS : contains(s, m)

\* _is_network_error
is_network_error(e) == \E m \in NETWORK_MARKERS : contains(lower(e), m)

\* the except branch of transcribe (lines 196-206) with the first test of
\* _handle_rate_limit (line 111)
classify(e) ==
    IF is_quota_error(e)
    THEN IF is_daily_quota_error(e) THEN "DailyQuotaExhausted" ELSE "RateLimited"
    ELSE IF is_network_error(e) THEN "Transient"
    ELSE "Fatal"

\* pieces of the messages the AI service and the network layer produce
Fragments ==
    {<<"4", "2", "9">>,
     <<"Q", "u", "o", "t", "a">>,
     <<"r", "a", "t", "e", " ", "l", "i", "m", "i", "t">>,
     <<"R", "E", "S", "O", "U", "R", "C", "E", "_", "E", "X", "H", "A", "U", "S", "T", "E", "D">>,
     <<"e", "x", "c", "e", "e", "d", "e", "d">>,
     <<"p", "e", "r", "_", "d", "a", "y">>,
     <<"P", "e", "r", "D", "a", "y">>,
     <<"d", "a", "i", "l", "y">>,
     <<"l", "i", "m", "i", "t", ":", " ", "0">>,
     <<"l", "i", "m", "i", "t", ":", " ", "1", "0">>,
     <<"C", "o", "n", "n", "e", "c", "t", "i", "o", "n">>,
     <<"t", "i", "m", "e", "o", "u", "t">>,
     <<"i", "n", "v", "a", "l", "i", "d", " ", "a", "r", "g", "u", "m", "e", "n", "t">>}

\* one to MaxFragments pieces joined by single spaces
RECURSIVE Join(_)
Join(fs) ==
    IF Len(fs) = 1 THEN fs[1] ELSE fs[1] \o <<" ">> \o Join(Tail(fs))

Messages ==
    {Join(fs) : fs \in UNION {[1..n -> Fragments] : n \in 1..MaxFragments}}

ApplyClassify ==
    /\ call.fn = "classify"
    /\ result = "pending"
    /\ result' = classify(call.message)
    /\ UNCHANGED <<now, poolVars, clientVars, watchVars, call, writes, recording>>

NextClassify == ApplyClassify

InitClassify ==
    /\ now = 0
    /\ InitTable({1}) /\ ClientIdle /\ WatcherIdle
    /\ call \in [fn : {"classify"}, message : Messages]
    /\ result = "pending"
    /\ writes = <<>>
    /\ recording = NoRecording

SpecClassify == InitClassify /\ [][NextClassify]_vars

\* ============================================================== restart
\* The watcher process with every write of the published state a step of
\* its own, killed at any point and started again on the same registry
\* file by run_watcher.py.

MaxRestarts == 1

\* _scan lines 95-96
ScanBegins ==
    /\ wpc = "scan"
    /\ status' = [state |-> "scanning", files_in_queue |-> 0]
    /\ wpc' = "scanning"
    /\ UNCHANGED <<fnVars, poolVars, clientVars, now, folder, file_sizes, file_stable_since,
                   rows, nextId, queue, running, ops>>

\* _scan lines 101-131, and with nothing to process line 148
ScanCollects == wpc = "scanning" /\ scan_collect

\* a status write of _scan raises (lines 96, 131, 148: they are outside the
\* try blocks of the two loops) and run's handler publishes the error
\* (lines 82-84)
ScanRaises ==
    /\ wpc \in {"scan", "scanning"}
    /\ status' = [state |-> "error", files_in_queue |-> 0]
    /\ queue' = <<>>
    /\ wpc' = "sleep"
    /\ UNCHANGED <<fnVars, poolVars, clientVars, now, folder, file_sizes, file_stable_since,
                   rows, nextId, running, ops>>

\* the process is killed or the machine goes down: nothing is written
Kill ==
    /\ wpc \notin {"init", "exited"}
    /\ wpc' = "exited"
    /\ running' = FALSE
    /\ queue' = <<>>
    /\ UNCHANGED <<fnVars, poolVars, clientVars, now, folder, file_sizes, file_stable_since,
                   rows, nextId, status, ops>>

\* run_watcher.py main: a new ProcessingRegistry on the same file (_init_db:
\* CREATE TABLE IF NOT EXISTS, INSERT OR IGNORE of the status row), a new
\* FolderWatcher with empty tracking state, run()
Restart ==
    /\ wpc = "exited"
    /\ ops < MaxRestarts
    /\ ops' = ops + 1
    /\ file_sizes' = [p \in Paths |-> NULL]
    /\ file_stable_since' = [p \in Paths |-> NULL]
    /\ queue' = <<>>
    /\ running' = TRUE
    /\ wpc' = "scan"
    /\ UNCHANGED <<fnVars, poolVars, clientVars, now, folder, rows, nextId, status>>

NextRestart ==
    \/ \E p \in Paths, h \in Hashes : FileArrives(p, h)
    \/ Run
    \/ ScanBegins
    \/ ScanCollects
    \/ ScanRaises
    \/ ProcessFile
    \/ \E ok \in BOOLEAN : PipelineEnds(ok)
    \/ Sleep
    \/ Stop
    \/ Kill
    \/ Restart

SpecRestart == InitWatcher /\ [][NextRestart]_vars

\* ---------------------------------------------------------------- crash
\* The watcher on a folder whose files stay as they are, killed inside an
\* attempt and started again; every step of the process is taken in the end
\* (the process runs, and it is started again when it has died).

\* the process dies inside _process_file, before the registry write; a
\* process that dies is started again
AttemptCrash == ops < MaxRestarts /\ wpc \in {"process", "pipeline"} /\ Kill

NextCrash ==
    \/ Run
    \/ ScanBegins
    \/ ScanCollects
    \/ ProcessFile
    \/ \E ok \in BOOLEAN : PipelineEnds(ok)
    \/ Sleep
    \/ AttemptCrash
    \/ Restart

InitCrash ==
    /\ now = 0 /\ InitTable({1}) /\ ClientIdle /\ NoCall
    /\ folder \in [Paths -> Hashes \cup {NoFile}]
    /\ file_sizes = [p \in Paths |-> NULL]
    /\ file_stable_since = [p \in Paths |-> NULL]
    /\ rows = {}
    /\ nextId = 1
    /\ queue = <<>>
    /\ wpc = "init"
    /\ running = FALSE
    /\ status = [state |-> "starting", files_in_queue |-> 0]
    /\ ops = 0

SpecCrash ==
    /\ InitCrash
    /\ [][NextCrash]_vars
    /\ WF_vars(Run)
    /\ WF_vars(ScanBegins)
    /\ WF_vars(ScanCollects)
    /\ WF_vars(ProcessFile)
    /\ WF_vars(\E ok \in BOOLEAN : PipelineEnds(ok))
    /\ WF_vars(Sleep)
    /\ WF_vars(Restart)

\* ================================================================= skip
\* ProcessingRegistry.should_skip applied on its own to a table of at most
\* one entry, at the times where the waits of the backoff table end.

\* the entries the table can hold: record_success writes retry_count 0 and
\* no last_retry_at, record_failure writes both, the operator's routes set
\* skipped and reset retry_count and last_retry_at
SkipEntries ==
    {r \in [id : {1}, file_hash : Hashes, success : BOOLEAN, error : {NoError, "error"},
            retry_count : 0..MaxRetryCount, last_retry_at : {NULL, 0, 60},
            skipped : BOOLEAN] :
        /\ r.success => (r.retry_count = 0 /\ r.last_retry_at = NULL
                         /\ r.error = NoError)
        /\ ~r.success => r.error = "error"
        /\ r.retry_count > 0 => r.last_retry_at # NULL}

\* seconds at which a wait of the table, counted from 0 or 60, ends, and
\* the second before
SkipTimes ==
    {0} \cup {s + 60 * RETRY_BACKOFF_MINUTES[k] - d :
                s \in {0, 60}, k \in 1..Len(RETRY_BACKOFF_MINUTES), d \in {0, 1}}

ApplyShouldSkip ==
    /\ call.fn = "should_skip"
    /\ result = "pending"
    /\ result' = should_skip(rows, call.file_hash, now)
    /\ UNCHANGED <<now, poolVars, clientVars, watchVars, call, writes, recording>>

NextSkip == ApplyShouldSkip

InitSkip ==
    /\ now \in SkipTimes
    /\ InitTable({1}) /\ ClientIdle
    /\ folder = [p \in Paths |-> NoFile]
    /\ file_sizes = [p \in Paths |-> NULL]
    /\ file_stable_since = [p \in Paths |-> NULL]
    /\ rows \in {{}} \cup {{r} : r \in SkipEntries}
    /\ nextId = 2
    /\ queue = <<>>
    /\ wpc = "init"
    /\ running = FALSE
    /\ status = [state |-> "starting", files_in_queue |-> 0]
    /\ ops = 0
    /\ call \in [fn : {"should_skip"}, file_hash : Hashes]
    /\ result = "pending"
    /\ writes = <<>>
    /\ recording = NoRecording

SpecSkip == InitSkip /\ [][NextSkip]_vars

\* ============================================================= registry
\* The registry's functions applied one after the other to a table that
\* starts empty or with one entry in any condition the code can write.
\* `call` keeps the last function applied, its arguments and the table it
\* was applied to.

MaxRegistryOps == 3
MaxRegistryTime == 120

Errors == {"error", "timeout"}

RegApply(c, rs, res) ==
    /\ ops < MaxRegistryOps
    /\ ops' = ops + 1
    /\ call' = c @@ [rows |-> rows, at |-> now]
    /\ rows' = rs
    /\ nextId' = nextId + 1
    /\ result' = res
    /\ UNCHANGED <<now, poolVars, clientVars, folder, file_sizes, file_stable_since,
                   queue, wpc, running, status, writes, recording>>

RegShouldSkip(h) ==
    RegApply([fn |-> "should_skip", file_hash |-> h], rows, should_skip(rows, h, now))

RegRecordFailure(h, e) ==
    RegApply([fn |-> "record_failure", file_hash |-> h, error |-> e],
             record_failure_error(rows, nextId, h, e, now), "done")

RegRecordSuccess(h) ==
    RegApply([fn |-> "record_success", file_hash |-> h],
             record_success(rows, nextId, h), "done")

RegSkip(h) ==
    RegApply([fn |-> "skip_file", file_hash |-> h], skip_file(rows, h), "done")

RegUnskip(h) ==
    RegApply([fn |-> "unskip_file", file_hash |-> h], unskip_file(rows, h), "done")

RegTick ==
    /\ now + 60 <= MaxRegistryTime
    /\ now' = now + 60
    /\ UNCHANGED <<fnVars, poolVars, clientVars, watchVars>>

NextRegistry ==
    \/ \E h \in Hashes : RegShouldSkip(h)
    \/ \E h \in Hashes, e \in Errors : RegRecordFailure(h, e)
    \/ \E h \in Hashes : RegRecordSuccess(h)
    \/ \E h \in Hashes : RegSkip(h)
    \/ \E h \in Hashes : RegUnskip(h)
    \/ RegTick

InitRegistry ==
    /\ now = 60
    /\ InitTable({1}) /\ ClientIdle
    /\ folder = [p \in Paths |-> NoFile]
    /\ file_sizes = [p \in Paths |-> NULL]
    /\ file_stable_since = [p \in Paths |-> NULL]
    /\ rows \in {{}} \cup {{r} : r \in SkipEntries}
    /\ nextId = 2
    /\ queue = <<>>
    /\ wpc = "init"
    /\ running = FALSE
    /\ status = [state |-> "starting", files_in_queue |-> 0]
    /\ ops = 0
    /\ NoCall

SpecRegistry == InitRegistry /\ [][NextRegistry]_vars

\* ============================================================== attempt
\* One _process_file call, statement by statement, on the first file of a
\* batch that a scan has just collected.  `writes` lists what the attempt
\* has written outside the process, in order; the file in the watched
\* folder can be rewritten by its owner or the sync client meanwhile.

AttemptFrame ==
    UNCHANGED <<now, poolVars, clientVars, folder, file_sizes, file_stable_since, rows,
                nextId, queue, running, status, ops, call, recording>>

\* lines 215-229: stat, then shutil.copy2 of the bytes the file holds now
AttemptCopy ==
    /\ wpc = "process"
    /\ folder[queue[1][1]] # NoFile
    /\ writes' = Append(writes, <<"copy", folder[queue[1][1]]>>)
    /\ wpc' = "pipeline"
    /\ UNCHANGED result
    /\ AttemptFrame

\* lines 216 / 229 raise (file gone, disk full): _process_file is left
\* before its try block
AttemptCopyFails ==
    /\ wpc = "process"
    /\ wpc' = "done"
    /\ result' = "raised"
    /\ UNCHANGED writes
    /\ AttemptFrame

\* line 240, core.py step 6: process_audio saves transcript and note and
\* returns its result, with tasks or without
PipelineSaves(has_tasks) ==
    /\ wpc = "pipeline"
    /\ writes' = writes \o <<<<"transcript", queue[1][1]>>, <<"note", queue[1][1]>>>>
    /\ result' = IF has_tasks THEN "has_tasks" ELSE "no_tasks"
    /\ wpc' = "succeeded"
    /\ AttemptFrame

\* line 240: process_audio raises, before its step 6 or inside it after
\* the transcript file has been written
PipelineRaises(saved) ==
    /\ wpc = "pipeline"
    /\ writes' = IF saved THEN Append(writes, <<"transcript", queue[1][1]>>) ELSE writes
    /\ wpc' = "failed"
    /\ UNCHANGED result
    /\ AttemptFrame

\* lines 243-254: record_success under the hash the scan computed
AttemptRecordSuccess ==
    /\ wpc = "succeeded"
    /\ rows' = record_success(rows, nextId, queue[1][2])
    /\ nextId' = nextId + 1
    /\ writes' = Append(writes, <<"registry", queue[1][2]>>)
    /\ wpc' = "recorded"
    /\ UNCHANGED <<now, poolVars, clientVars, folder, file_sizes, file_stable_since,
                   queue, running, status, ops, call, result, recording>>

\* lines 243-254 raise: the except branch is entered
AttemptRecordSuccessRaises ==
    /\ wpc = "succeeded"
    /\ wpc' = "failed"
    /\ UNCHANGED <<writes, result>>
    /\ AttemptFrame

\* lines 256-271: the tasks are appended to the daily file (a failure is
\* logged and passed over), the working copy is deleted, the tracking
\* state popped
AttemptFinishes(appended) ==
    /\ wpc = "recorded"
    /\ writes' = (IF result = "has_tasks" /\ appended
                  THEN Append(writes, <<"tasks", queue[1][1]>>) ELSE writes)
                 \o <<<<"unlink", queue[1][1]>>>>
    /\ file_sizes' = [file_sizes EXCEPT ![queue[1][1]] = NULL]
    /\ file_stable_since' = [file_stable_since EXCEPT ![queue[1][1]] = NULL]
    /\ wpc' = "done"
    /\ UNCHANGED <<now, poolVars, clientVars, folder, rows, nextId, queue, running,
                   status, ops, call, result, recording>>

\* lines 282-299: the working copy is moved to the failed directory (a
\* failure of the move is passed over), record_failure, the tracking state
\* popped
AttemptFails(moved) ==
    /\ wpc = "failed"
    /\ rows' = record_failure(rows, nextId, queue[1][2], now)
    /\ nextId' = IF rows_of(rows, queue[1][2]) = {} THEN nextId + 1 ELSE nextId
    /\ writes' = (IF moved THEN Append(writes, <<"quarantine", queue[1][1]>>) ELSE writes)
                 \o <<<<"registry", queue[1][2]>>>>
    /\ file_sizes' = [file_sizes EXCEPT ![queue[1][1]] = NULL]
    /\ file_stable_since' = [file_stable_since EXCEPT ![queue[1][1]] = NULL]
    /\ wpc' = "done"
    /\ UNCHANGED <<now, poolVars, clientVars, folder, queue, running, status, ops,
                   call, result, recording>>

AttemptTick ==
    /\ wpc \in {"process", "pipeline"}
    /\ Tick
    /\ UNCHANGED <<fnVars, poolVars, clientVars, watchVars>>

NextAttempt ==
    \/ \E p \in Paths : FileGrows(p)
    \/ AttemptCopy
    \/ AttemptCopyFails
    \/ \E has_tasks \in BOOLEAN : PipelineSaves(has_tasks)
    \/ \E saved \in BOOLEAN : PipelineRaises(saved)
    \/ AttemptRecordSuccess
    \/ AttemptRecordSuccessRaises
    \/ \E appended \in BOOLEAN : AttemptFinishes(appended)
    \/ \E moved \in BOOLEAN : AttemptFails(moved)
    \/ AttemptTick

\* a scan at second 30 has found the file at the first path stable and not
\* to be skipped
InitAttempt ==
    /\ now = 30
    /\ InitTable({1}) /\ ClientIdle
    /\ folder \in [Paths -> Hashes \cup {NoFile}]
    /\ folder[PathOrder[1]] # NoFile
    /\ file_sizes = [p \in Paths |-> IF p = PathOrder[1] THEN file_size(folder[p]) ELSE NULL]
    /\ file_stable_since = [p \in Paths |-> IF p = PathOrder[1] THEN 0 ELSE NULL]
    /\ rows \in {{}} \cup {{r} : r \in SkipEntries}
    /\ should_skip(rows, folder[PathOrder[1]], now) = ""
    /\ nextId = 2
    /\ queue = <<<<PathOrder[1], folder[PathOrder[1]]>>>>
    /\ wpc = "process"
    /\ running = TRUE
    /\ status = [state |-> "processing", files_in_queue |-> 1]
    /\ ops = 0
    /\ call = [fn |-> "_process_file"]
    /\ result = "pending"
    /\ writes = <<>>
    /\ recording = NoRecording

SpecAttempt == InitAttempt /\ [][NextAttempt]_vars

\* ------------------------------------------------------------------ abort
\* AudioProcessor.process on one uploaded recording, run by the background
\* task of manager m1, while the abort route may be called.  The keys the
\* retry loops draw are left out: whether another key is available after a
\* quota error is a free choice.

\* main.py line 237: an uploaded recording waits for its background task
PendingRecording ==
    [status |-> "pending", error_message |-> "", processing_step |-> "",
     processing_message |-> ""]

AbortFrame ==
    UNCHANGED <<clientVars, watchVars, keys, curKey, loopKey, selKey, lockOwner, loops, call>>

\* main.py lines 460-474: the abort route
abort_recording ==
    /\ recording.status \in {"pending", "processing"}
    /\ recording' = [recording EXCEPT !.status = "failed",
                                      !.error_message = "Aborted by user",
                                      !.processing_step = "aborted"]
    /\ writes' = Append(writes, <<"abort", now>>)
    /\ UNCHANGED <<now, pc, attempt, wake, result>>
    /\ AbortFrame

\* processor.py lines 33-72: the only place that looks at the abort, the
\* check RateLimitHandler.wait makes before it sleeps.  No code constructs a
\* RateLimitHandler or calls wait.
rate_limit_handler_aborted(rec) ==
    rec.status = "failed" /\ rec.error_message = "Aborted by user"

\* processor.py lines 580-587: the background task starts on the recording
ProcessBegins ==
    /\ pc["m1"] = "idle"
    /\ result = "pending"
    /\ recording' = [recording EXCEPT !.status = "processing",
                                      !.processing_step = "starting"]
    /\ pc' = [pc EXCEPT !["m1"] = "start"]
    /\ UNCHANGED <<now, attempt, wake, result, writes>>
    /\ AbortFrame

\* lines 591-663: compression, then the transcription loop is entered
ProcessTranscribes ==
    /\ pc["m1"] = "start"
    /\ recording' = [recording EXCEPT !.processing_step = "transcribing",
                                      !.processing_message = "preparing"]
    /\ pc' = [pc EXCEPT !["m1"] = "transcribe"]
    /\ attempt' = [attempt EXCEPT !["m1"] = 0]
    /\ UNCHANGED <<now, wake, result, writes>>
    /\ AbortFrame

\* lines 685-689: the except clause of process, after the handler of the
\* loop left msg as the progress message
ProcessFails(msg) ==
    /\ recording' = [recording EXCEPT !.status = "failed",
                                      !.error_message = "error",
                                      !.processing_message = msg]
    /\ result' = "failed"
    /\ pc' = [pc EXCEPT !["m1"] = "done"]
    /\ attempt' = [attempt EXCEPT !["m1"] = 0]
    /\ wake' = [wake EXCEPT !["m1"] = 0]

\* `continue` in either loop; past the end of range(MAX_RETRIES) the raise of
\* lines 760 and 811
ProcessContinue(stage, msg) ==
    IF attempt["m1"] + 1 < MAX_RETRIES_LOOP
    THEN /\ pc' = [pc EXCEPT !["m1"] = stage]
         /\ attempt' = [attempt EXCEPT !["m1"] = @ + 1]
         /\ wake' = [wake EXCEPT !["m1"] = 0]
         /\ recording' = [recording EXCEPT !.processing_message = msg]
         /\ UNCHANGED result
    ELSE ProcessFails(msg)

\* lines 719-724 and 665-668: transcribe_audio returned
TranscribeSucceeds ==
    /\ pc["m1"] = "transcribe"
    /\ recording' = [recording EXCEPT !.processing_step = "analyzing",
                                      !.processing_message = "preparing"]
    /\ pc' = [pc EXCEPT !["m1"] = "breakdown"]
    /\ attempt' = [attempt EXCEPT !["m1"] = 0]
    /\ UNCHANGED <<now, wake, result, writes>>
    /\ AbortFrame

\* lines 781-785 and 673-682: generate_breakdown returned
BreakdownSucceeds ==
    /\ pc["m1"] = "breakdown"
    /\ recording' = [recording EXCEPT !.status = "completed",
                                      !.processing_step = "done",
                                      !.processing_message = "using key"]
    /\ result' = "completed"
    /\ pc' = [pc EXCEPT !["m1"] = "done"]
    /\ attempt' = [attempt EXCEPT !["m1"] = 0]
    /\ UNCHANGED <<now, wake, writes>>
    /\ AbortFrame

\* lines 731-742 and 791-802: the call raised a quota error
ProcessCallQuota(another_key) ==
    /\ pc["m1"] \in {"transcribe", "breakdown"}
    /\ IF another_key
       THEN ProcessContinue(pc["m1"], "rate limit")
       ELSE ProcessFails("rate limit")
    /\ UNCHANGED <<now, writes>>
    /\ AbortFrame

\* lines 746-752: the transcription call raised a network error
ProcessCallNetwork ==
    /\ pc["m1"] = "transcribe"
    /\ pc' = [pc EXCEPT !["m1"] = "sleep"]
    /\ wake' = [wake EXCEPT !["m1"] = now + network_wait(attempt["m1"])]
    /\ recording' = [recording EXCEPT !.processing_message = "network error"]
    /\ UNCHANGED <<now, attempt, result, writes>>
    /\ AbortFrame

\* line 751: time.sleep(wait_time) returns
ProcessWake ==
    /\ pc["m1"] = "sleep"
    /\ now >= wake["m1"]
    /\ ProcessContinue("transcribe", "network error")
    /\ UNCHANGED <<now, writes>>
    /\ AbortFrame

\* lines 754-758 and 804-809: any other error, and in the breakdown loop a
\* network error as well
ProcessCallOther ==
    /\ pc["m1"] \in {"transcribe", "breakdown"}
    /\ IF attempt["m1"] >= MAX_RETRIES_LOOP - 1
       THEN ProcessFails("using key")
       ELSE ProcessContinue(pc["m1"], "using key")
    /\ UNCHANGED <<now, writes>>
    /\ AbortFrame

\* a call of the AI service returns or raises
ProcessCall ==
    \/ TranscribeSucceeds
    \/ BreakdownSucceeds
    \/ \E another_key \in BOOLEAN : ProcessCallQuota(another_key)
    \/ ProcessCallNetwork
    \/ ProcessCallOther

NextAbort ==
    \/ PoolTick
    \/ abort_recording
    \/ ProcessBegins
    \/ ProcessTranscribes
    \/ TranscribeSucceeds
    \/ BreakdownSucceeds
    \/ \E another_key \in BOOLEAN : ProcessCallQuota(another_key)
    \/ ProcessCallNetwork
    \/ ProcessWake
    \/ ProcessCallOther

InitAbort ==
    /\ now = 0
    /\ InitTable({1})
    /\ ClientIdle
    /\ WatcherIdle
    /\ call = [fn |-> "process"]
    /\ result = "pending"
    /\ writes = <<>>
    /\ recording = PendingRecording

SpecAbort == InitAbort /\ [][NextAbort]_vars

\* =============================================================== folder
\* The watcher on a folder whose files come, grow and go, with no operator.

NextFolder ==
    \/ \E p \in Paths, h \in Hashes : FileArrives(p, h)
    \/ \E p \in Paths : FileGrows(p)
    \/ \E p \in Paths : FileRemoved(p)
    \/ Run
    \/ Scan
    \/ ProcessFile
    \/ SourceMissing
    \/ \E ok \in BOOLEAN : PipelineEnds(ok)
    \/ Sleep

SpecFolder == InitWatcher /\ [][NextFolder]_vars

\* ================================================================ retry
\* The watcher on a folder whose files are complete from the start, with no
\* operator, over the hours the backoff table spans.  A stretch of scans
\* that find every file waiting is taken in one step.

\* scans from the pop of a skipped file's tracking entry to the next pop:
\* the entry is recorded, then checked until stability_seconds have passed
CyclePeriod == stability_seconds \div scan_interval_seconds + 1

IdleSeconds == IdleRounds * CyclePeriod * scan_interval_seconds

\* every file of the folder is skipped by each of the next scans
AllWaiting ==
    /\ \A p \in Paths :
        folder[p] # NoFile =>
            /\ file_stable_since[p] = NULL
                \/ now - file_stable_since[p] < stability_seconds
            /\ \A k \in 1..(IdleRounds * CyclePeriod) :
                should_skip(rows, folder[p], now + k * scan_interval_seconds) # ""

\* run lines 79-85, IdleRounds * CyclePeriod times over: sleep, then a scan
\* that skips every file.  Each tracking entry is popped and recorded again
\* once per CyclePeriod scans, so it ends where it was, that much later.
LongSleep ==
    /\ wpc = "sleep"
    /\ AllWaiting
    /\ now + IdleSeconds <= MaxRetryTime
    /\ now' = now + IdleSeconds
    /\ file_stable_since' = [p \in Paths |->
            IF folder[p] = NoFile \/ file_stable_since[p] = NULL
            THEN file_stable_since[p]
            ELSE file_stable_since[p] + IdleSeconds]
    /\ status' = [state |-> "idle", files_in_queue |-> 0]
    /\ UNCHANGED <<fnVars, poolVars, clientVars, folder, file_sizes, rows, nextId, queue,
                   wpc, running, ops>>

\* a single sleep, where the next scans do not all come out the same
ShortSleep == ~AllWaiting /\ SleepUntil(MaxRetryTime)

NextRetry ==
    \/ Run
    \/ Scan
    \/ ProcessFile
    \/ \E ok \in BOOLEAN : PipelineEnds(ok)
    \/ ShortSleep
    \/ LongSleep

InitRetry ==
    /\ now = 0 /\ InitTable({1}) /\ ClientIdle /\ NoCall
    /\ folder \in [Paths -> Hashes]
    /\ file_sizes = [p \in Paths |-> NULL]
    /\ file_stable_since = [p \in Paths |-> NULL]
    /\ rows = {}
    /\ nextId = 1
    /\ queue = <<>>
    /\ wpc = "init"
    /\ running = FALSE
    /\ status = [state |-> "starting", files_in_queue |-> 0]
    /\ ops = 0

SpecRetry == InitRetry /\ [][NextRetry]_vars

\* ============================================================== claims
\* C1: every credential that get_model hands to a caller is, at the moment
\* it is returned, not exhausted and not under an unexpired lock taken by
\* another caller.
C1_AcquireReturnsUsable ==
    [][\A m \in Managers :
        (pc[m] = "get" /\ pc'[m] = "call") =>
            /\ ~keys'[loopKey'[m]].is_exhausted
            /\ ~(/\ keys'[loopKey'[m]].locked_until # NULL
                 /\ keys'[loopKey'[m]].locked_until > now'
                 /\ lockOwner'[loopKey'[m]] # m)]_vars

C3_SelectThenLockAtomic ==
    [][\A m \in Managers :
        (pc[m] = "write" /\ pc'[m] = "hold") =>
            ~(/\ keys[selKey[m]].locked_until # NULL
              /\ keys[selKey[m]].locked_until > now
              /\ lockOwner[selKey[m]] # m)]_vars

\* C4: a credential that has been marked exhausted stays exhausted, across
\* later transcribe / structure calls and later files: no step of the engine
\* takes a key out of the exhausted set.
C4_ExhaustedIsPermanent ==
    [][client.exhausted \subseteq client'.exhausted]_vars

\* C5: a credential whose third non-daily rate-limit error in a row (no
\* successful call in between) has been handled is exhausted.
C5_ThirdRateLimitExhausts ==
    \A k \in ClientKeys :
        streak[k] >= MAX_429_BEFORE_EXHAUST => k \in client.exhausted

\* C6: handling a daily-quota error exhausts the credential on that very
\* call and leaves it without cooldown entry and without 429 count, in every
\* step of the engine and for every count the key can have had before.
C6_DailyQuotaExhaustsAtOnce ==
    [][/\ CallRateLimited(TRUE) =>
            /\ ckey \in client'.exhausted
            /\ client'.key_cooldowns[ckey] = NULL
            /\ client'.key_429_counts[ckey] = 0
       /\ \A k \in ClientKeys, n \in 0..(MAX_429_BEFORE_EXHAUST - 1),
             cd \in {NULL, now + RATE_LIMIT_WAIT_SECONDS} :
            LET before == [client EXCEPT !.key_429_counts[k] = n,
                                         !.key_cooldowns[k] = cd,
                                         !.exhausted = @ \ {k}]
                after == handle_rate_limit(before, k, TRUE, now)
            IN  /\ k \in after.exhausted
                /\ after.key_cooldowns[k] = NULL
                /\ after.key_429_counts[k] = 0]_vars

\* C6 witness: in the middle of a retry loop a key is exhausted although it
\* has never been rate-limited three times, with no cooldown and no count
C6_Witness ==
    /\ cpc = "get"
    /\ cattempt > 0
    /\ \E k \in ClientKeys :
        /\ k \in client.exhausted
        /\ streak[k] < MAX_429_BEFORE_EXHAUST
        /\ client.key_cooldowns[k] = NULL
        /\ client.key_429_counts[k] = 0

\* uses recorded so far, over both keys
TotalUses == keys[1].total_requests + keys[2].total_requests

\* the earliest start among the windows the table holds
EarliestStart ==
    CHOOSE t \in {keys[i].minute_window_start : i \in DOMAIN keys} \ {NULL} :
        \A i \in DOMAIN keys :
            keys[i].minute_window_start = NULL \/ t <= keys[i].minute_window_start

\* ten uses are recorded and all of them are counted in the windows the
\* table holds now: no window has been restarted since the first call
TenRapidUses ==
    /\ TotalUses = 2 * MAX_REQUESTS_PER_MINUTE
    /\ \A i \in DOMAIN keys :
        /\ keys[i].minute_window_start # NULL
        /\ keys[i].requests_this_minute = keys[i].total_requests

\* ... and fewer than 60 seconds have passed since the earliest window start
TenInWindow == TenRapidUses /\ now - EarliestStart < WindowSeconds

\* C7: two keys, RPM 5, a caller repeating get_model + mark_key_used(True).
\* The first ten acquisitions succeed; ten rapid uses are five on each key;
\* the acquisition after them fails as long as fewer than 60 seconds have
\* passed since the earliest window start, and succeeds once they have.
C7_TwelveCalls ==
    /\ [](TenRapidUses =>
            \A i \in DOMAIN keys :
                keys[i].requests_this_minute = MAX_REQUESTS_PER_MINUTE)
    /\ [][(pc["m1"] = "idle" /\ loops' = loops + 1) =>
            /\ TotalUses < 2 * MAX_REQUESTS_PER_MINUTE => pc'["m1"] = "hold"
            /\ TenInWindow => pc'["m1"] = "idle"
            /\ (TenRapidUses /\ ~TenInWindow) => pc'["m1"] = "hold"]_vars

\* C7 witness: twelve calls were made, the eleventh failed at five uses on
\* each key, and the twelfth, a minute after the first window start, was
\* served and recorded
C7_Witness ==
    /\ loops = MaxSeqCalls
    /\ TotalUses = 2 * MAX_REQUESTS_PER_MINUTE + 1
    /\ \E i \in DOMAIN keys :
        /\ keys[i].total_requests = MAX_REQUESTS_PER_MINUTE
        /\ keys[i].requests_this_minute = MAX_REQUESTS_PER_MINUTE

C9_SuccessIsTerminal ==
    [][\A h \in Hashes :
        should_skip(rows, h, now) = "already_processed" =>
            \/ rows_of(rows', h) = {}
            \/ /\ should_skip(rows', h, now') = "already_processed"
               /\ \A r \in rows_of(rows, h), q \in rows_of(rows', h) :
                    /\ q.success = r.success
                    /\ q.error = r.error
                    /\ q.retry_count = r.retry_count]_vars

\* C10: the registry never holds two entries with the same content hash,
\* and a record_success leaves exactly one entry for its hash, a successful
\* one, whatever the table held for the hash before.
C10_OneEntryPerHash ==
    /\ [](\A h \in Hashes : Cardinality(rows_of(rows, h)) <= 1)
    /\ [][PipelineEnds(TRUE) =>
            /\ Cardinality(rows_of(rows', queue[1][2])) = 1
            /\ \A r \in rows_of(rows', queue[1][2]) : r.success]_vars

\* C10 witness: record_success has replaced an entry: both paths hold the
\* same bytes, both files of the batch have been through the pipeline, and
\* the table holds the one successful entry of the second insert
C10_Witness ==
    /\ folder["a"] = folder["b"]
    /\ folder["a"] # NoFile
    /\ wpc = "sleep"
    /\ ops = 0
    /\ nextId = 3
    /\ rows = {success_row(2, folder["a"])}

\* C11: the table of waits is strictly increasing and ends at 240 minutes;
\* a file whose entry records k failures, k from 1 to 4, is skipped for
\* backoff exactly until the k-th entry of the table, in minutes, has passed
\* since the last failure, and not a second longer; an entry with 5 or more
\* failures is skipped at every time.
C11_BackoffTable ==
    /\ \A k \in 1..(Len(RETRY_BACKOFF_MINUTES) - 1) :
            RETRY_BACKOFF_MINUTES[k] < RETRY_BACKOFF_MINUTES[k + 1]
    /\ \A k \in 1..Len(RETRY_BACKOFF_MINUTES) : RETRY_BACKOFF_MINUTES[k] <= 240
    /\ \A r \in rows :
        (~r.success /\ ~r.skipped /\ r.retry_count >= 1) =>
            IF r.retry_count < 5
            THEN LET due == r.last_retry_at
                            + 60 * RETRY_BACKOFF_MINUTES[r.retry_count]
                 IN  /\ should_skip(rows, r.file_hash, now)
                            = (IF now < due THEN "backoff" ELSE "")
                     /\ should_skip(rows, r.file_hash, due - 1) = "backoff"
                     /\ should_skip(rows, r.file_hash, due) = ""
            ELSE \A t \in {now, r.last_retry_at, r.last_retry_at + 60 * 240,
                           r.last_retry_at + 60 * 240 * 100} :
                    should_skip(rows, r.file_hash, t) = "max_retries_exceeded"

\* C11 witness: one file has failed five times in a row, each time after
\* the wait of the table: 1 + 5 + 15 + 60 minutes lie between the first and
\* the fifth failure at the least
C11_Witness ==
    /\ folder["a"] # folder["b"]
    /\ \E r \in rows :
        /\ r.file_hash = folder["a"]
        /\ ~r.success
        /\ r.retry_count = 5
        /\ r.last_retry_at >= 60 * (1 + 5 + 15 + 60)
        /\ wpc = "sleep"

\* C12: with no operator action, the watcher starts the pipeline only for a
\* file whose hash has fewer than MAX_RETRIES recorded failures: once the
\* entry of a hash has retry_count >= 5, no file with that hash is processed
\* again.
C12_NoStartAfterMaxRetries ==
    [][ProcessFile =>
        \A r \in rows_of(rows, queue[1][2]) : r.retry_count < MAX_RETRIES]_vars

C15_RateLimitKeepsAttempts ==
    [][((\E daily \in BOOLEAN : CallRateLimited(daily))
            /\ ClientKeys \ client'.exhausted # {})
        => (cattempt' = cattempt /\ cpc' = "get")]_vars

C17_PollLoopSurvives ==
    running => wpc \in {"scan", "process", "pipeline", "sleep"}

\* C18: once stop() has been called (running is False again after run set
\* it), the published state of the watcher is "stopped" and stays so, and
\* the watcher is not in a scan.
C18_StoppedStays ==
    (wpc # "init" /\ ~running) =>
        /\ status.state = "stopped"
        /\ wpc \in {"sleep", "exited"}

C20_CrashedLockExpires ==
    \A k \in KeyIds, m \in Managers :
        (/\ lockOwner[k] = m
         /\ pc[m] = "idle"
         /\ keys[k].is_active
         /\ ~keys[k].is_exhausted
         /\ keys[k].locked_until # NULL
         /\ now >= keys[k].locked_until)
        => /\ k \in available_keys(keys, now)
           /\ lock_is_free(keys[k], now)

\* C21: should_skip answers "" when the table has no entry for the hash;
\* otherwise already_processed when the entry is successful; otherwise
\* skipped_by_user when it is skipped; otherwise max_retries_exceeded when
\* its retry_count is 5 or more; otherwise backoff when retry_count > 0 and
\* now is before last_retry_at plus entry min(retry_count - 1, 4) of the
\* table <<1, 5, 15, 60, 240>> in minutes; otherwise "".
C21_SkipPrecedence ==
    result # "pending" =>
        IF \A r \in rows : r.file_hash # call.file_hash
        THEN result = ""
        ELSE \A r \in rows :
                r.file_hash = call.file_hash =>
                    result =
                        IF r.success THEN "already_processed"
                        ELSE IF r.skipped THEN "skipped_by_user"
                        ELSE IF r.retry_count >= 5 THEN "max_retries_exceeded"
                        ELSE IF /\ r.retry_count > 0
                                /\ now < r.last_retry_at
                                    + 60 * <<1, 5, 15, 60, 240>>[
                                        Min2(r.retry_count - 1, 4) + 1]
                             THEN "backoff"
                        ELSE ""

\* C21 witness: the precedence decides: a successful entry that the user
\* has skipped as well has been answered with already_processed
C21_Witness ==
    /\ call.fn = "should_skip"
    /\ result = "already_processed"
    /\ \E r \in rows : r.file_hash = call.file_hash /\ r.success /\ r.skipped

\* C22: the key a get_model call returns is, among the keys that are
\* active, not exhausted and not locked when it is called, one with the
\* greatest remaining capacity, and of those with that capacity the one
\* inserted first.
C22_GreatestCapacityFirst ==
    [][(SeqAcquire /\ loopKey'["m1"] # NoKey) =>
        LET eligible == {i \in KeyIds :
                            /\ keys[i].is_active
                            /\ ~keys[i].is_exhausted
                            /\ \/ keys[i].locked_until = NULL
                               \/ keys[i].locked_until <= now}
            k == loopKey'["m1"]
        IN  /\ k \in eligible
            /\ \A j \in eligible :
                \/ get_remaining_capacity(keys[k], now)
                        > get_remaining_capacity(keys[j], now)
                \/ /\ get_remaining_capacity(keys[k], now)
                        = get_remaining_capacity(keys[j], now)
                   /\ k <= j]_vars

\* the keys of a table that are active, not exhausted and not locked
Unlocked(ks, t) ==
    {i \in DOMAIN ks : /\ ks[i].is_active
                       /\ ~ks[i].is_exhausted
                       /\ (ks[i].locked_until = NULL \/ ks[i].locked_until <= t)}

\* a table for which the call is to fail with NoCapacity
NoCapacity(ks, t) ==
    /\ Unlocked(ks, t) # {}
    /\ \A i \in Unlocked(ks, t) : get_remaining_capacity(ks[i], t) = 0

\* a table for which the call is to fail with AllExhausted
AllExhausted(ks) == \A i \in DOMAIN ks : ~ks[i].is_active \/ ks[i].is_exhausted

\* C23: the error get_model raised for a table whose unlocked keys are all
\* at capacity is not the error it raises for any table whose keys are all
\* exhausted or inactive: the caller can tell NoCapacity from AllExhausted.
C23_FailuresDistinguishable ==
    (result # "pending" /\ NoCapacity(call.keys, now)) =>
        /\ result # ""
        /\ \A ks \in [KeyIds -> KeyStates] :
                AllExhausted(ks) => get_model_error(ks, NoKey, now) # result

C25_ReleaseFrame ==
    (call.fn = "release_key_lock" /\ result = "done") =>
        /\ keys[call.key].locked_until = NULL
        /\ keys[call.key] = [call.keys[call.key] EXCEPT !.locked_until = NULL]
        /\ \A i \in KeyIds \ {call.key} : keys[i] = call.keys[i]

\* a locked key with a full window and uses recorded was released, next to
\* another locked key
C25_Witness ==
    /\ call.fn = "release_key_lock" /\ result = "done"
    /\ call.keys[call.key].locked_until = 20
    /\ call.keys[call.key].requests_this_minute = MAX_REQUESTS_PER_MINUTE
    /\ \E i \in KeyIds \ {call.key} : keys[i].locked_until = 20

\* C26: within one client the consecutive-429 count of a key goes down only
\* when a call with that key succeeds or a daily-quota error exhausts it: it
\* survives the key's cooldown and its re-selection, so that the third
\* rate-limit error in a row finds it at 2.
C26_CounterSurvivesCooldown ==
    [][\A k \in ClientKeys :
        (client'.key_429_counts[k] < client.key_429_counts[k]) =>
            \/ CallReturns /\ ckey = k
            \/ CallRateLimited(TRUE) /\ ckey = k
            \/ ProcessAudio]_vars

\* C27: _get_available_key never sleeps: whatever the state of the keys, the
\* call is over in the step that made it, with a key handed out or an error
\* raised, and no time passes inside it.
C27_AcquireNeverSleeps ==
    [][GetAvailableKey => (cpc' \in {"call", "idle"} /\ cwake' = 0)]_vars

\* a marker found in a message when both are lowered and taken without
\* spaces and underscores
MarkerIn(m, e) ==
    contains(replace(replace(lower(e), " "), "_"),
             replace(replace(lower(m), " "), "_"))

\* C28: a message with a rate-limit marker is DailyQuotaExhausted when it
\* has one of the daily markers (per_day, daily, 'limit: 0' among them, all
\* compared without spaces and underscores) and RateLimited when it has
\* none; without rate-limit marker it is Transient when it has a network
\* marker and Fatal otherwise.
C28_Classifier ==
    (call.fn = "classify" /\ result # "pending") =>
        LET e == call.message
            rate == \E m \in QUOTA_MARKERS : contains(lower(e), m)
            daily == \E m \in DAILY_QUOTA_MARKERS : MarkerIn(m, e)
            network == \E m \in NETWORK_MARKERS : contains(lower(e), m)
        IN  result = IF rate /\ daily THEN "DailyQuotaExhausted"
                     ELSE IF rate THEN "RateLimited"
                     ELSE IF network THEN "Transient"
                     ELSE "Fatal"

\* the entries of the log that stand for a call of the AI service
OpCalls(l) == {i \in 1..Len(l) : l[i][1] # "cooldown"}

\* C29: transcribe / structure make at most max_retries (5) calls of the AI
\* service, whatever the mix of quota, network and other errors; they end
\* with "failed after N attempts" exactly when five calls were made and
\* each of them, the last included, failed with a quota or network error.
C29_FailedAfterAttempts ==
    /\ Cardinality(OpCalls(log)) <= max_retries
    /\ cattempt < max_retries
    /\ cresult = "failed after attempts" =>
            /\ Cardinality(OpCalls(log)) = max_retries
            /\ \A i \in OpCalls(log) : log[i][1] \in {"quota", "network"}
            /\ log[Len(log)][1] \in {"quota", "network"}
    /\ (/\ cpc = "idle"
        /\ Cardinality(OpCalls(log)) = max_retries
        /\ \A i \in OpCalls(log) : log[i][1] \in {"quota", "network"})
            => cresult = "failed after attempts"

\* a call has ended after five failed attempts, network and quota errors
\* among them
C29_Witness ==
    /\ cresult = "failed after attempts"
    /\ \E i \in 1..Len(log) : log[i][1] = "network"
    /\ \E i \in 1..Len(log) : log[i][1] = "quota"

\* the waits of the attempts 0 .. 4
TransientDelays == <<5, 10, 20, 30, 30>>

\* C30: within one transcribe / structure call the wait slept after a
\* network error on attempt a (from 0, every earlier call of the AI service
\* having used one attempt) is min(5 * 2^a, 30) seconds: 5, 10, 20, 30, 30;
\* the successive waits of a call never decrease and never exceed 30, and
\* the network error uses up an attempt.
C30_TransientDelay ==
    /\ [](\A i \in 1..Len(log) :
            log[i][1] = "network" =>
                /\ log[i][2] = TransientDelays[Cardinality({j \in OpCalls(log) : j < i}) + 1]
                /\ log[i][2] <= 30
                /\ \A j \in 1..(i - 1) : log[j][1] = "network" => log[j][2] <= log[i][2])
    /\ [][ClientWake => (cattempt' = cattempt + 1 \/ cresult' = "failed after attempts")]_vars

\* the fourth network error in a row of one call is being slept off, for
\* 30 seconds
C30_Witness ==
    /\ cpc = "sleep"
    /\ cattempt = 3
    /\ Len(log) = 4
    /\ \A i \in 1..4 : log[i][1] = "network"
    /\ log[4][2] = 30
    /\ cwake = now + 30

\* the entry of a hash in a table (the hash is UNIQUE)
Entry(rs, h) == CHOOSE r \in rows_of(rs, h) : TRUE

\* C31: record_failure(hash, error) creates the entry with retry_count 1,
\* not successful and not skipped, when the hash has none; otherwise it
\* raises retry_count by exactly 1 and leaves success and skipped as they
\* were; in both cases last_retry_at is now and error the given error, and
\* the entries of other hashes are not touched.
C31_RecordFailure ==
    (call.fn = "record_failure" /\ ops > 0) =>
        LET h == call.file_hash
            new == Entry(rows, h)
        IN  /\ Cardinality(rows_of(rows, h)) = 1
            /\ new.last_retry_at = call.at
            /\ new.error = call.error
            /\ IF rows_of(call.rows, h) = {}
               THEN new.retry_count = 1 /\ ~new.success /\ ~new.skipped
               ELSE LET old == Entry(call.rows, h)
                    IN  /\ new.retry_count = old.retry_count + 1
                        /\ new.success = old.success
                        /\ new.skipped = old.skipped
                        /\ new.id = old.id
            /\ rows \ rows_of(rows, h) = call.rows \ rows_of(call.rows, h)

\* a second failure with another error text was recorded on a skipped
\* entry that had one failure
C31_Witness ==
    /\ call.fn = "record_failure" /\ ops > 0
    /\ call.error = "timeout"
    /\ rows_of(call.rows, call.file_hash) # {}
    /\ Entry(call.rows, call.file_hash).skipped
    /\ Entry(call.rows, call.file_hash).retry_count = 1
    /\ Entry(rows, call.file_hash).retry_count = 2

AllowedStatusChange(a, b) ==
    \/ b \in {"error", "stopped"}
    \/ a \in {"starting", "idle", "error"} /\ b = "scanning"
    \/ a = "scanning" /\ b \in {"idle", "processing"}
    \/ a = "processing" /\ b = "idle"

\* C33: the published state is "starting" when a watcher process has
\* started, and it changes only from starting / idle / error to scanning,
\* from scanning to idle with an empty batch, from scanning to processing
\* with a non-empty batch, from processing to idle, and from any state to
\* error or stopped.
C33_StatusTransitions ==
    [][/\ (Run \/ Restart) => status'.state = "starting"
       /\ status'.state # status.state =>
            AllowedStatusChange(status.state, status'.state)
       /\ (status.state = "scanning" /\ status'.state = "processing") => queue' # <<>>
       /\ (status.state = "scanning" /\ status'.state = "idle") => queue' = <<>>]_vars

\* C34: a scan in which a registry write of a file's attempt raised ends
\* with the published state "error", not "idle".
C34_FailedScanEndsInError ==
    [][(RecordFails /\ wpc' = "sleep") => status'.state = "error"]_vars

\* C35: the step that ends the attempt on a batch file writes the registry
\* entry of its hash, which is then the only entry of that hash (successful
\* after a pipeline that succeeded, failed with retry_count >= 1
\* otherwise), and leaves no tracking state for the path.
C35_AttemptRecordedOnce ==
    [][\A ok \in BOOLEAN :
        ((SourceMissing /\ ~ok) \/ PipelineEnds(ok)) =>
            LET p == queue[1][1]
                h == queue[1][2]
            IN  /\ rows' # rows
                /\ Cardinality(rows_of(rows', h)) = 1
                /\ \A r \in rows_of(rows', h) :
                        r.success = ok /\ (~ok => r.retry_count >= 1)
                /\ file_sizes'[p] = NULL
                /\ file_stable_since'[p] = NULL]_vars

\* the writes of an attempt that produce output
OutputWrites == {"transcript", "note", "tasks", "quarantine"}

C39_RecordedHashIsCopiedHash ==
    \A i, j \in 1..Len(writes) :
        (writes[i][1] = "copy" /\ writes[j][1] = "registry") =>
            writes[j][2] = writes[i][2]

\* C37: every file that stays in the watched folder gets a registry entry
\* for its hash in the end, a successful one or a failed one with
\* retry_count >= 1, also when the process is killed inside an attempt,
\* before the registry write, and started again.
C37_EveryFileGetsAnEntry ==
    <>[](\A p \in Paths :
            folder[p] # NoFile =>
                /\ rows_of(rows, folder[p]) # {}
                /\ \A r \in rows_of(rows, folder[p]) : r.success \/ r.retry_count >= 1)

\* the process was killed inside an attempt and started again, and both
\* files of the folder have their entries
C37_Witness ==
    /\ ops = MaxRestarts
    /\ wpc = "sleep"
    /\ \A p \in Paths : folder[p] # NoFile /\ rows_of(rows, folder[p]) # {}
    /\ folder[PathOrder[1]] # folder[PathOrder[2]]

\* C38: once the abort route has answered for a recording in flight, no
\* further call of the AI service is made for it and its status stays
\* "failed" with the message of the abort, and never becomes "completed"
AbortRequested == \E i \in DOMAIN writes : writes[i][1] = "abort"

C38_AbortStopsPipeline ==
    /\ [](AbortRequested => /\ recording.status = "failed"
                            /\ recording.error_message = "Aborted by user")
    /\ [][AbortRequested => ~ProcessCall]_vars

\* C40: while the keys of one manager are all in the window they started
\* together, the numbers of requests counted in that window for any two keys
\* that can be selected never differ by more than 1
window_count(k, t) == MAX_REQUESTS_PER_MINUTE - get_remaining_capacity(k, t)

C40_LoadIsSpread ==
    now < WindowSeconds =>
        \A i, j \in Unlocked(keys, now) :
            window_count(keys[i], now) - window_count(keys[j], now) <= 1

====
